---- MODULE Spec2Model ----
(***************************************************************************)
(* GST calculation and invoice-breakdown engine of LelekartHoney.          *)
(*                                                                         *)
(* The functions of the GST utility module (src/unnamed/part_000), of the  *)
(* order calculation service, of the invoice service and the               *)
(* calculateTaxes helper of the invoice template are pure once the order   *)
(* row and the same-state flag are given; each is an operator here,        *)
(* computed the way the code computes it, and each call is an action that  *)
(* draws its arguments from a bounded set and records the value returned.  *)
(* The two invoice routes and generateInvoiceHtml are asynchronous: each   *)
(* is a process whose steps are the stretches of code between two awaits.  *)
(*                                                                         *)
(* Numbers.  A JavaScript number is modelled as an exact rational          *)
(* <<numerator, denominator>> in lowest terms with a positive denominator. *)
(* Math.round and Math.floor are modelled exactly (Math.round rounds a tie *)
(* towards +Infinity).  The binary rounding error of IEEE-754 doubles is   *)
(* below this level of abstraction: an equality proved here holds of the   *)
(* code up to floating-point tolerance.  gstRate ranges over non-negative  *)
(* rates (TaxRate of the data model), and over negative rates other than   *)
(* -100 where the primitives are related, so 1 + gstRate/100 is never 0.   *)
(*                                                                         *)
(* Strings are TLA+ strings; + is \o.                                      *)
(***************************************************************************)
EXTENDS Integers, Sequences, FiniteSets, TLC

VARIABLES
    fn,             \* the function called last ("none" after start-up)
    inclusivePrice, \* argument: a GST-inclusive price
    gstRate,        \* argument: the GST rate, a percentage
    isSameState,    \* argument: intra-state supply?
    breakdown,      \* value returned by calculateGstBreakdown
    basePrice,      \* value returned by calculateBasePrice
    priceWithGst,   \* value returned by calculatePriceWithGst
    amount,         \* argument of convertAmountToWords
    words,          \* value returned by convertAmountToWords / convertToWords
    wholeRupees,    \* argument of convertToWords: a whole number of rupees
    items,          \* argument: the items of an order
    delivery,       \* argument: the delivery charge and its GST rate
    order,          \* value returned by calculateOrder
    invoice,        \* value returned by calculateInvoiceData
    invoiceData,    \* value returned by generateInvoiceData
    taxQuantity,    \* argument of calculateTaxes: the quantity
    buyerState,     \* argument of calculateTaxes: the buyer's state
    sellerState,    \* argument of calculateTaxes: the seller's state
    taxes,          \* value returned by calculateTaxes
    fmtPrice,       \* argument of the display formatters: the price
    fmtRate,        \* argument of the display formatters: the GST rate
    formatted,      \* value returned by a display formatter
    wideRupees,     \* argument of convertToWords beyond 2^31: crores and the rest
    helperWords,    \* text returned by the amountInWords template helper
    extractedGst,   \* value returned by extractGstAmount
    gstOnBase,      \* value returned by calculateGstAmount for the base price
    req,            \* the request of an invoice route
    storage,         \* what storage holds for the request's order and user
    res,            \* the response of the route: status code and kind of body
    routePc,        \* the await the route handler is suspended at
    calls,          \* the asynchronous calls the handler has made, in order
    threw,          \* an awaited call of the handler has thrown
    htmlPc,         \* per generateInvoiceHtml call: the await it is suspended at
    htmlOrder,      \* per generateInvoiceHtml call: data.order.id
    helpers,        \* the helpers registered on the global Handlebars instance
    html            \* per generateInvoiceHtml call: the rendered QR section

gstVars == <<inclusivePrice, gstRate, isSameState, breakdown, basePrice,
             priceWithGst>>

wordsVars == <<amount, words, wholeRupees>>

orderVars == <<items, delivery, order, invoice, invoiceData>>

taxesVars == <<taxQuantity, buyerState, sellerState, taxes>>

formatVars == <<fmtPrice, fmtRate, formatted>>

routeVars == <<req, storage, res, routePc, calls, threw>>

htmlVars == <<htmlPc, htmlOrder, helpers, html>>

laterVars ==
    <<orderVars, taxesVars, formatVars, wideRupees, helperWords, extractedGst,
      gstOnBase, routeVars, htmlVars>>

vars == <<fn, gstVars, wordsVars, laterVars>>

---------------------------------------------------------------------------
(* Bounds of the model.                                                    *)

\* prices range over the quarter rupees -MinPriceQuarters/4 .. MaxPriceQuarters/4
MaxPriceQuarters == 480
MinPriceQuarters == 8
\* amounts put into words range over the thousandths 0 .. MaxAmountMilli/1000
MaxAmountMilli == 2200
\* ... and over the whole rupees 0 .. MaxRupees
MaxRupees == 1200
\* rupee values compared with the reference converter: 1 .. MaxRefRupees
MaxRefRupees == 9999

\* a number is printed with at most MaxFractionDigits digits after the point
\* (a double has at most 17 significant decimal digits)
MaxFractionDigits == 17

\* an order has at most MaxItems items, each of a quantity up to MaxQuantity
MaxItems == 2
MaxQuantity == 2
MaxOrderId == 3

---------------------------------------------------------------------------
(* JavaScript numbers as exact rationals.                                  *)

Abs(n) == IF n < 0 THEN -n ELSE n

RECURSIVE GCD(_, _)
GCD(a, b) == IF b = 0 THEN a ELSE GCD(b, a % b)

\* the number n/d (d # 0) in lowest terms, denominator positive
Rat(n, d) ==
    LET g == GCD(Abs(n), Abs(d))
        s == IF d < 0 THEN -1 ELSE 1
    IN  <<(s * n) \div g, (s * d) \div g>>

Num(n) == <<n, 1>>

Zero == Num(0)

\* the operands are cross-reduced first, so that no intermediate product is
\* larger than the result needs
RAdd(x, y) ==
    LET g == GCD(x[2], y[2])
    IN  Rat(x[1] * (y[2] \div g) + y[1] * (x[2] \div g), (x[2] \div g) * y[2])
RNeg(x) == <<0 - x[1], x[2]>>
RSub(x, y) == RAdd(x, RNeg(y))
RMul(x, y) ==
    LET g1 == GCD(Abs(x[1]), y[2])
        g2 == GCD(Abs(y[1]), x[2])
    IN  Rat((x[1] \div g1) * (y[1] \div g2), (x[2] \div g2) * (y[2] \div g1))
\* y # 0
RDiv(x, y) == RMul(x, Rat(y[2], y[1]))
RLess(x, y) == x[1] * y[2] < y[1] * x[2]
RLeq(x, y) == x[1] * y[2] <= y[1] * x[2]

\* Math.floor: the greatest integer <= x
\* the % operator on integers: the remainder has the sign of the dividend
JsRem(a, b) == IF a >= 0 THEN a % b ELSE 0 - ((0 - a) % b)

MathFloor(x) == x[1] \div x[2]

\* Math.round: the nearest integer, a tie going towards +Infinity
MathRound(x) ==
    LET q == x[1] \div x[2]
        r == x[1] - q * x[2]
    IN  IF 2 * r >= x[2] THEN q + 1 ELSE q

---------------------------------------------------------------------------
(* GST math primitives.                                                    *)

\* mutant: the rate is applied as a factor, not as a percentage
calculateGstAmount_NoPercent(price, rate) == RMul(price, rate)

calculateGstAmount(price, rate) == RDiv(RMul(price, rate), Num(100))

\* mutant: a zero rate is replaced by a default rate (gstRate || 18)
calculateBasePrice_DefaultRate(price, rate) ==
    RDiv(price, RAdd(Num(1),
                     RDiv(IF rate = Zero THEN Num(18) ELSE rate, Num(100))))

\* mutant: the tax is taken off as a percentage of the inclusive price
calculateBasePrice_Subtract(price, rate) ==
    RSub(price, RDiv(RMul(price, rate), Num(100)))

calculateBasePrice(price, rate) ==
    RDiv(price, RAdd(Num(1), RDiv(rate, Num(100))))

extractGstAmount(price, rate) ==
    LET base == calculateBasePrice(price, rate)
    IN  RSub(price, base)

calculatePriceWithGst(price, rate) ==
    RAdd(price, calculateGstAmount(price, rate))

(* GST breakdown calculator.                                               *)

GstBreakdownRecord(price, rate, sameState, base, gstAmount, cgst, sgst, igst, splitRate) ==
    [taxableValue |-> base,
     gstRate      |-> rate,
     totalGst     |-> gstAmount,
     cgst         |-> cgst,
     cgstRate     |-> splitRate,
     sgst         |-> sgst,
     sgstRate     |-> splitRate,
     igst         |-> igst,
     igstRate     |-> IF ~sameState THEN rate ELSE Zero,
     total        |-> price,
     isSameState  |-> sameState]

\* mutant: CGST and SGST are each reported at the full rate
calculateGstBreakdown_RatesNotSplit(price, rate, sameState) ==
    LET base == calculateBasePrice(price, rate)
        gstAmount == RSub(price, base)
        half == IF sameState THEN RDiv(gstAmount, Num(2)) ELSE Zero
    IN  GstBreakdownRecord(price, rate, sameState, base, gstAmount, half, half,
                           IF sameState THEN Zero ELSE gstAmount,
                           IF sameState THEN rate ELSE Zero)

\* mutant: the tax is computed on the inclusive price as if it were exclusive
calculateGstBreakdown_GstOnInclusive(price, rate, sameState) ==
    LET base == calculateBasePrice(price, rate)
        gstAmount == calculateGstAmount(price, rate)
        half == IF sameState THEN RDiv(gstAmount, Num(2)) ELSE Zero
    IN  GstBreakdownRecord(price, rate, sameState, base, gstAmount, half, half,
                           IF sameState THEN Zero ELSE gstAmount,
                           IF sameState THEN RDiv(rate, Num(2)) ELSE Zero)

\* mutant: the else is lost, IGST is assigned in both cases
calculateGstBreakdown_IgstAlways(price, rate, sameState) ==
    LET base == calculateBasePrice(price, rate)
        gstAmount == RSub(price, base)
        half == IF sameState THEN RDiv(gstAmount, Num(2)) ELSE Zero
    IN  GstBreakdownRecord(price, rate, sameState, base, gstAmount, half, half,
                           gstAmount,
                           IF sameState THEN RDiv(rate, Num(2)) ELSE Zero)

\* mutant: the inter-state branch assigns nothing
calculateGstBreakdown_NoIgst(price, rate, sameState) ==
    LET base == calculateBasePrice(price, rate)
        gstAmount == RSub(price, base)
        half == IF sameState THEN RDiv(gstAmount, Num(2)) ELSE Zero
    IN  GstBreakdownRecord(price, rate, sameState, base, gstAmount, half, half,
                           Zero,
                           IF sameState THEN RDiv(rate, Num(2)) ELSE Zero)

calculateGstBreakdown(price, rate, sameState) ==
    LET base == calculateBasePrice(price, rate)
        gstAmount == RSub(price, base)
        cgst == IF sameState THEN RDiv(gstAmount, Num(2)) ELSE Zero
        sgst == IF sameState THEN RDiv(gstAmount, Num(2)) ELSE Zero
        igst == IF sameState THEN Zero ELSE gstAmount
    IN  GstBreakdownRecord(price, rate, sameState, base, gstAmount, cgst, sgst,
                           igst,
                           IF sameState THEN RDiv(rate, Num(2)) ELSE Zero)

---------------------------------------------------------------------------
(* Amount-to-words converter.                                              *)

\* the element at index i of a JavaScript array; a string built from a
\* missing element reads "undefined"
At(arr, i) == IF i + 1 \in DOMAIN arr THEN arr[i + 1] ELSE "undefined"

ones == <<"", "One", "Two", "Three", "Four", "Five", "Six", "Seven", "Eight",
          "Nine">>
tens == <<"", "", "Twenty", "Thirty", "Forty", "Fifty", "Sixty", "Seventy",
          "Eighty", "Ninety">>
teens == <<"Ten", "Eleven", "Twelve", "Thirteen", "Fourteen", "Fifteen",
           "Sixteen", "Seventeen", "Eighteen", "Nineteen">>

\* String.prototype.trim, for the only white space these strings have
RECURSIVE TrimStart(_)
TrimStart(s) ==
    IF Len(s) > 0 /\ SubSeq(s, 1, 1) = " " THEN TrimStart(Tail(s)) ELSE s

RECURSIVE TrimEnd(_)
TrimEnd(s) ==
    IF Len(s) > 0 /\ SubSeq(s, Len(s), Len(s)) = " "
    THEN TrimEnd(SubSeq(s, 1, Len(s) - 1))
    ELSE s

Trim(s) == TrimEnd(TrimStart(s))

RECURSIVE convertLessThanThousand(_)
convertLessThanThousand(n) ==
    IF n = 0 THEN ""
    ELSE IF n < 10 THEN At(ones, n)
    ELSE IF n < 20 THEN At(teens, n - 10)
    ELSE IF n < 100 THEN
        LET tensDigit == n \div 10
            onesDigit == JsRem(n, 10)
        IN  At(tens, tensDigit)
              \o (IF onesDigit > 0 THEN " " \o At(ones, onesDigit) ELSE "")
    ELSE
        LET hundreds == n \div 100
            remainder == JsRem(n, 100)
        IN  At(ones, hundreds) \o " Hundred"
              \o (IF remainder > 0
                  THEN " " \o convertLessThanThousand(remainder)
                  ELSE "")

\* mutant: the result is not trimmed
convertToWords_NoTrim(n) ==
    IF n = 0 THEN ""
    ELSE
        LET crores == n \div 10000000
            lakhs == JsRem(n, 10000000) \div 100000
            thousands == JsRem(n, 100000) \div 1000
            remainder == JsRem(n, 1000)
            r1 == IF crores > 0
                  THEN convertLessThanThousand(crores) \o " Crore " ELSE ""
            r2 == IF lakhs > 0
                  THEN r1 \o convertLessThanThousand(lakhs) \o " Lakh " ELSE r1
            r3 == IF thousands > 0
                  THEN r2 \o convertLessThanThousand(thousands) \o " Thousand "
                  ELSE r2
            r4 == IF remainder > 0
                  THEN r3 \o convertLessThanThousand(remainder) ELSE r3
        IN  r4

\* mutant: western grouping, thousands are not cut off at one lakh
convertToWords_NoLakh(n) ==
    IF n = 0 THEN ""
    ELSE
        LET crores == n \div 10000000
            thousands == JsRem(n, 10000000) \div 1000
            remainder == JsRem(n, 1000)
            r1 == IF crores > 0
                  THEN convertLessThanThousand(crores) \o " Crore " ELSE ""
            r3 == IF thousands > 0
                  THEN r1 \o convertLessThanThousand(thousands) \o " Thousand "
                  ELSE r1
            r4 == IF remainder > 0
                  THEN r3 \o convertLessThanThousand(remainder) ELSE r3
        IN  Trim(r4)

convertToWords(n) ==
    IF n = 0 THEN ""
    ELSE
        LET crores == n \div 10000000
            lakhs == JsRem(n, 10000000) \div 100000
            thousands == JsRem(n, 100000) \div 1000
            remainder == JsRem(n, 1000)
            r1 == IF crores > 0
                  THEN convertLessThanThousand(crores) \o " Crore " ELSE ""
            r2 == IF lakhs > 0
                  THEN r1 \o convertLessThanThousand(lakhs) \o " Lakh " ELSE r1
            r3 == IF thousands > 0
                  THEN r2 \o convertLessThanThousand(thousands) \o " Thousand "
                  ELSE r2
            r4 == IF remainder > 0
                  THEN r3 \o convertLessThanThousand(remainder) ELSE r3
        IN  Trim(r4)

\* convertToWords on a number beyond 2^31, given as the record
\* [crores, below] of Math.floor(n / 10000000) and n % 10000000
convertToWordsWide(w) ==
    IF w.crores = 0 /\ w.below = 0 THEN ""
    ELSE
        LET crores == w.crores
            lakhs == w.below \div 100000
            thousands == JsRem(w.below, 100000) \div 1000
            remainder == JsRem(w.below, 1000)
            r1 == IF crores > 0
                  THEN convertLessThanThousand(crores) \o " Crore " ELSE ""
            r2 == IF lakhs > 0
                  THEN r1 \o convertLessThanThousand(lakhs) \o " Lakh " ELSE r1
            r3 == IF thousands > 0
                  THEN r2 \o convertLessThanThousand(thousands) \o " Thousand "
                  ELSE r2
            r4 == IF remainder > 0
                  THEN r3 \o convertLessThanThousand(remainder) ELSE r3
        IN  Trim(r4)

\* the rupee and paise parts the converter derives from an amount
\* mutant: the rupee part is taken from the amount before it is rounded
rupeesOf_Unrounded(amt) == MathFloor(amt)

roundedAmountOf(amt) == RDiv(Num(MathRound(RMul(amt, Num(100)))), Num(100))
rupeesOf(amt) == MathFloor(roundedAmountOf(amt))
paiseOf(amt) ==
    MathRound(RMul(RSub(roundedAmountOf(amt), Num(rupeesOf(amt))), Num(100)))

\* mutant: the unit word is always the plural
convertAmountToWords_AlwaysPlural(amt) ==
    IF amt = Zero THEN "Zero Only"
    ELSE
        LET rupees == rupeesOf(amt)
            paise == paiseOf(amt)
            r0 == convertToWords(rupees)
            r1 == IF r0 # "" THEN r0 \o " Rupees" ELSE r0
            r2 == IF paise > 0
                  THEN (IF r1 # "" THEN r1 \o " and " ELSE r1)
                         \o convertToWords(paise) \o " Paise"
                  ELSE r1
        IN  r2 \o " Only"

\* mutant: the paise phrase is appended without the joining " and "
convertAmountToWords_NoAnd(amt) ==
    IF amt = Zero THEN "Zero Only"
    ELSE
        LET rupees == rupeesOf(amt)
            paise == paiseOf(amt)
            r0 == convertToWords(rupees)
            r1 == IF r0 # ""
                  THEN r0 \o " Rupee" \o (IF rupees # 1 THEN "s" ELSE "")
                  ELSE r0
            r2 == IF paise > 0
                  THEN (IF r1 # "" THEN r1 \o " " ELSE r1)
                         \o convertToWords(paise) \o " Paise"
                  ELSE r1
        IN  r2 \o " Only"

convertAmountToWords(amt) ==
    IF amt = Zero THEN "Zero Only"
    ELSE
        LET rupees == rupeesOf(amt)
            paise == paiseOf(amt)
            r0 == convertToWords(rupees)
            r1 == IF r0 # ""
                  THEN r0 \o " Rupee" \o (IF rupees # 1 THEN "s" ELSE "")
                  ELSE r0
            r2 == IF paise > 0
                  THEN (IF r1 # "" THEN r1 \o " and " ELSE r1)
                         \o convertToWords(paise) \o " Paise"
                  ELSE r1
        IN  r2 \o " Only"

---------------------------------------------------------------------------
(* Order / invoice aggregators.  An item is a record [inclusivePrice,       *)
(* gstRate, quantity]; the fields the arithmetic does not read (productId,  *)
(* name, hsnCode, mrp, discount) are left out.  A rounded field is kept as  *)
(* the number Num(MathRound(x)).                                            *)

Round(x) == Num(MathRound(x))

\* Math.round(x * 100) / 100
Round2(x) == RDiv(Num(MathRound(RMul(x, Num(100)))), Num(100))

\* items.reduce((sum, item) => sum + f(item), 0) for the numbers f(item) in seq
RECURSIVE SumOf(_)
SumOf(seq) ==
    IF seq = <<>> THEN Zero
    ELSE RAdd(SumOf(SubSeq(seq, 1, Len(seq) - 1)), seq[Len(seq)])

\* the sum of field f over the rows: rows.reduce((sum, row) => sum + row.f, 0)
SumField(rows, f) == SumOf([i \in DOMAIN rows |-> rows[i][f]])

\* rows.reduce((sum, row) => sum + row.f * row.quantity, 0)
SumFieldByQuantity(rows, f) ==
    SumOf([i \in DOMAIN rows |-> RMul(rows[i][f], Num(rows[i].quantity))])

(* calculateInvoiceData of the GST utility module.  Each function is       *)
(* split where the code binds a const: the operator that follows takes the *)
(* bound value as a parameter.                                             *)

\* the record an item maps to, given its unit breakdown b
InvoiceItemRecord(item, b, qty) ==
    [quantity         |-> item.quantity,
     inclusivePrice   |-> item.inclusivePrice,
     gstRate          |-> item.gstRate,
     taxableValue     |-> b.taxableValue,
     gstAmount        |-> b.totalGst,
     cgst             |-> b.cgst,
     sgst             |-> b.sgst,
     igst             |-> b.igst,
     cgstRate         |-> b.cgstRate,
     sgstRate         |-> b.sgstRate,
     igstRate         |-> b.igstRate,
     total            |-> item.inclusivePrice,
     lineTaxableValue |-> RMul(b.taxableValue, qty),
     lineGstAmount    |-> RMul(b.totalGst, qty),
     lineTotal        |-> RMul(item.inclusivePrice, qty)]

\* the returned record, given the totals
InvoiceDataRecord(itemsBreakdown, deliveryBreakdown, deliveryGstRate, sameState, totalTaxableValue, totalCgst, totalSgst, totalIgst, grandTotal) ==
    [items    |-> itemsBreakdown,
     delivery |-> deliveryBreakdown,
     totals   |->
        [taxableValue  |-> totalTaxableValue,
         cgst          |-> totalCgst,
         cgstRate      |-> IF sameState THEN RDiv(deliveryGstRate, Num(2))
                                        ELSE Zero,
         sgst          |-> totalSgst,
         sgstRate      |-> IF sameState THEN RDiv(deliveryGstRate, Num(2))
                                        ELSE Zero,
         igst          |-> totalIgst,
         igstRate      |-> IF ~sameState THEN deliveryGstRate ELSE Zero,
         totalGst      |-> RAdd(RAdd(totalCgst, totalSgst), totalIgst),
         grandTotal    |-> grandTotal,
         amountInWords |-> convertAmountToWords(grandTotal)],
     isSameState |-> sameState]

\* the totals, given the item-wise breakdown and the delivery breakdown
InvoiceDataTotals(itemsBreakdown, deliveryBreakdown, deliveryCharges, deliveryGstRate, sameState) ==
    InvoiceDataRecord(itemsBreakdown, deliveryBreakdown, deliveryGstRate,
        sameState,
        RAdd(SumField(itemsBreakdown, "lineTaxableValue"),
             deliveryBreakdown.taxableValue),
        RAdd(SumFieldByQuantity(itemsBreakdown, "cgst"), deliveryBreakdown.cgst),
        RAdd(SumFieldByQuantity(itemsBreakdown, "sgst"), deliveryBreakdown.sgst),
        RAdd(SumFieldByQuantity(itemsBreakdown, "igst"), deliveryBreakdown.igst),
        RAdd(SumField(itemsBreakdown, "lineTotal"), deliveryCharges))

calculateInvoiceData(its, deliveryCharges, deliveryGstRate, sameState) ==
    InvoiceDataTotals(
        [i \in DOMAIN its |->
            InvoiceItemRecord(its[i],
                calculateGstBreakdown(its[i].inclusivePrice, its[i].gstRate, sameState),
                Num(its[i].quantity))],
        calculateGstBreakdown(deliveryCharges, deliveryGstRate, sameState),
        deliveryCharges, deliveryGstRate, sameState)

(* calculateOrder of the order calculation service.  isSameState is what    *)
(* getGstType returns for the two PIN codes of the address.                 *)

\* mutant: the line values are reported as multiplied, not rounded
OrderItemRecord_ExactLines(item, b, qty) ==
    [quantity         |-> item.quantity,
     price            |-> item.inclusivePrice,
     taxableValue     |-> Round(b.taxableValue),
     gstAmount        |-> Round(b.totalGst),
     cgstAmount       |-> Round(b.cgst),
     sgstAmount       |-> Round(b.sgst),
     igstAmount       |-> Round(b.igst),
     gstRate          |-> b.gstRate,
     cgstRate         |-> b.cgstRate,
     sgstRate         |-> b.sgstRate,
     igstRate         |-> b.igstRate,
     lineTotal        |-> RMul(item.inclusivePrice, qty),
     lineTaxableValue |-> RMul(b.taxableValue, qty),
     lineGstAmount    |-> RMul(b.totalGst, qty),
     lineCgst         |-> RMul(b.cgst, qty),
     lineSgst         |-> RMul(b.sgst, qty),
     lineIgst         |-> RMul(b.igst, qty)]

\* the record an item maps to, given its unit breakdown b
OrderItemRecord(item, b, qty) ==
    [quantity         |-> item.quantity,
     price            |-> item.inclusivePrice,
     taxableValue     |-> Round(b.taxableValue),
     gstAmount        |-> Round(b.totalGst),
     cgstAmount       |-> Round(b.cgst),
     sgstAmount       |-> Round(b.sgst),
     igstAmount       |-> Round(b.igst),
     gstRate          |-> b.gstRate,
     cgstRate         |-> b.cgstRate,
     sgstRate         |-> b.sgstRate,
     igstRate         |-> b.igstRate,
     lineTotal        |-> Round(RMul(item.inclusivePrice, qty)),
     lineTaxableValue |-> Round(RMul(b.taxableValue, qty)),
     lineGstAmount    |-> Round(RMul(b.totalGst, qty)),
     lineCgst         |-> Round(RMul(b.cgst, qty)),
     lineSgst         |-> Round(RMul(b.sgst, qty)),
     lineIgst         |-> Round(RMul(b.igst, qty))]

\* the returned record, given the totals
OrderResultRecord(dlv, sameState, calculatedItems, deliveryBreakdown, itemsSubtotal, totalTaxableValue, totalCgst, totalSgst, totalIgst, grandTotal) ==
    [items    |-> calculatedItems,
     delivery |->
        [inclusiveCharges |-> dlv.inclusiveCharges,
         taxableValue     |-> Round(deliveryBreakdown.taxableValue),
         gstAmount        |-> Round(deliveryBreakdown.totalGst),
         cgstAmount       |-> Round(deliveryBreakdown.cgst),
         sgstAmount       |-> Round(deliveryBreakdown.sgst),
         igstAmount       |-> Round(deliveryBreakdown.igst),
         gstRate          |-> dlv.gstRate],
     totals   |->
        [itemsSubtotal     |-> Round(itemsSubtotal),
         deliveryCharges   |-> dlv.inclusiveCharges,
         totalTaxableValue |-> totalTaxableValue,
         totalCgst         |-> totalCgst,
         totalSgst         |-> totalSgst,
         totalIgst         |-> totalIgst,
         totalGst          |-> RAdd(RAdd(totalCgst, totalSgst), totalIgst),
         grandTotal        |-> grandTotal,
         amountInWords     |-> convertAmountToWords(grandTotal)],
     gstInfo  |-> [isSameState |-> sameState]]

\* the totals, given the calculated items and the delivery breakdown
OrderTotals(dlv, sameState, calculatedItems, deliveryBreakdown) ==
    OrderResultRecord(dlv, sameState, calculatedItems, deliveryBreakdown,
        SumField(calculatedItems, "lineTotal"),
        Round(RAdd(SumField(calculatedItems, "lineTaxableValue"),
                   deliveryBreakdown.taxableValue)),
        Round(RAdd(SumField(calculatedItems, "lineCgst"), deliveryBreakdown.cgst)),
        Round(RAdd(SumField(calculatedItems, "lineSgst"), deliveryBreakdown.sgst)),
        Round(RAdd(SumField(calculatedItems, "lineIgst"), deliveryBreakdown.igst)),
        Round(RAdd(SumField(calculatedItems, "lineTotal"), dlv.inclusiveCharges)))

calculateOrder(its, dlv, sameState) ==
    OrderTotals(dlv, sameState,
        [i \in DOMAIN its |->
            OrderItemRecord(its[i],
                calculateGstBreakdown(its[i].inclusivePrice, its[i].gstRate, sameState),
                Num(its[i].quantity))],
        calculateGstBreakdown(dlv.inclusiveCharges, dlv.gstRate, sameState))

(* formatForDatabase: the order row and the item rows stored for a          *)
(* calculated order.                                                       *)

formatForDatabase(calculation) ==
    [orderFields |->
        [total                |-> calculation.totals.grandTotal,
         deliveryTaxableValue |-> calculation.delivery.taxableValue,
         deliveryGstAmount    |-> calculation.delivery.gstAmount,
         deliveryCgstAmount   |-> calculation.delivery.cgstAmount,
         deliverySgstAmount   |-> calculation.delivery.sgstAmount,
         deliveryIgstAmount   |-> calculation.delivery.igstAmount,
         deliveryGstRate      |-> calculation.delivery.gstRate,
         totalTaxableValue    |-> calculation.totals.totalTaxableValue,
         totalCgst            |-> calculation.totals.totalCgst,
         totalSgst            |-> calculation.totals.totalSgst,
         totalIgst            |-> calculation.totals.totalIgst,
         isSameState          |-> calculation.gstInfo.isSameState,
         amountInWords        |-> calculation.totals.amountInWords],
     itemsFields |->
        [i \in DOMAIN calculation.items |->
            [quantity     |-> calculation.items[i].quantity,
             price        |-> calculation.items[i].price,
             taxableValue |-> calculation.items[i].taxableValue,
             gstAmount    |-> calculation.items[i].gstAmount,
             cgstAmount   |-> calculation.items[i].cgstAmount,
             sgstAmount   |-> calculation.items[i].sgstAmount,
             igstAmount   |-> calculation.items[i].igstAmount,
             gstRate      |-> calculation.items[i].gstRate,
             cgstRate     |-> calculation.items[i].cgstRate,
             sgstRate     |-> calculation.items[i].sgstRate,
             igstRate     |-> calculation.items[i].igstRate]]]

(* generateInvoiceData of the invoice service, from the order row it       *)
(* fetches: orderData.total and, per item, price, quantity and the         *)
(* product's gstRate.  The products carry no mrp, so mrp is the price.     *)
(* isSameState is what getGstType returns for the seller's default PIN     *)
(* code and the buyer's.                                                   *)

DEFAULT_DELIVERY_GST_RATE == 5

\* the rate used when product.gstRate is not set
DEFAULT_ITEM_GST_RATE == 18

\* the order as the query returns it: the stored rows joined with the products
orderDataOf(stored, its) ==
    [total |-> stored.orderFields.total,
     items |->
        [i \in DOMAIN stored.itemsFields |->
            [price    |-> stored.itemsFields[i].price,
             quantity |-> stored.itemsFields[i].quantity,
             product  |-> [gstRate |-> its[i].gstRate]]]]

\* the taxComponents array of an item or of the delivery
taxComponentsOf(b, sameState) ==
    IF sameState
    THEN <<[taxName |-> "CGST", taxRate |-> b.cgstRate, taxAmount |-> Round2(b.cgst)],
           [taxName |-> "SGST", taxRate |-> b.sgstRate, taxAmount |-> Round2(b.sgst)]>>
    ELSE <<[taxName |-> "IGST", taxRate |-> b.igstRate, taxAmount |-> Round2(b.igst)]>>

\* Number(product.gstRate || 18)
itemGstRate(product) ==
    IF product.gstRate = Zero THEN Num(DEFAULT_ITEM_GST_RATE) ELSE product.gstRate

\* the record an item maps to, given its mrp and its unit breakdown
ProcessedItemRecord(item, mrp, itemBreakdown, qty, sameState) ==
    [quantity      |-> item.quantity,
     mrp           |-> Round(RMul(mrp, qty)),
     discount      |-> Round(RMul(RSub(mrp, item.price), qty)),
     taxableValue  |-> Round(RMul(itemBreakdown.taxableValue, qty)),
     taxComponents |-> taxComponentsOf(itemBreakdown, sameState),
     total         |-> Round(RMul(item.price, qty))]

\* the sum of the taxAmount of the tax components
TaxAmountSum(components) == SumField(components, "taxAmount")

\* the returned record, given the processed items and the delivery's figures
InvoiceRecord(orderData, sameState, deliveryCharges, deliveryBreakdown, processedItems, deliveryTaxComponents) ==
    [items    |-> processedItems,
     delivery |->
        [charges       |-> deliveryCharges,
         taxableValue  |-> Round(deliveryBreakdown.taxableValue),
         gstAmount     |-> Round(deliveryBreakdown.totalGst),
         taxComponents |-> deliveryTaxComponents],
     totals   |->
        [totalGrossAmount  |-> SumField(processedItems, "mrp"),
         totalDiscount     |-> SumField(processedItems, "discount"),
         totalTaxableValue |->
            RAdd(SumField(processedItems, "taxableValue"),
                 Round(deliveryBreakdown.taxableValue)),
         totalTaxAmount    |->
            Round2(RAdd(SumOf([i \in DOMAIN processedItems |->
                                 TaxAmountSum(processedItems[i].taxComponents)]),
                        TaxAmountSum(deliveryTaxComponents))),
         grandTotal        |-> orderData.total,
         amountInWords     |-> convertAmountToWords(orderData.total)],
     gstInfo  |-> [isSameState |-> sameState]]

\* the invoice, given the delivery charges and their breakdown
InvoiceOfDelivery(orderData, sameState, deliveryCharges, deliveryBreakdown) ==
    InvoiceRecord(orderData, sameState, deliveryCharges, deliveryBreakdown,
        [i \in DOMAIN orderData.items |->
            ProcessedItemRecord(orderData.items[i], orderData.items[i].price,
                calculateGstBreakdown(orderData.items[i].price,
                    itemGstRate(orderData.items[i].product), sameState),
                Num(orderData.items[i].quantity), sameState)],
        IF RLess(Zero, deliveryCharges)
        THEN taxComponentsOf(deliveryBreakdown, sameState)
        ELSE <<>>)

\* mutant: a negative difference is replaced by no delivery charge
deliveryChargesOf_ClampedAtZero(orderData) ==
    LET difference ==
            RSub(orderData.total,
                 SumOf([i \in DOMAIN orderData.items |->
                          RMul(orderData.items[i].price,
                               Num(orderData.items[i].quantity))]))
    IN  IF RLess(difference, Zero) THEN Zero ELSE difference

\* orderData.total - itemsTotal
deliveryChargesOf(orderData) ==
    RSub(orderData.total,
         SumOf([i \in DOMAIN orderData.items |->
                  RMul(orderData.items[i].price,
                       Num(orderData.items[i].quantity))]))

\* the invoice, given the delivery charges
InvoiceOfCharges(orderData, sameState, deliveryCharges) ==
    InvoiceOfDelivery(orderData, sameState, deliveryCharges, calculateGstBreakdown(deliveryCharges, Num(DEFAULT_DELIVERY_GST_RATE), sameState))

generateInvoiceData(orderData, sameState) ==
    InvoiceOfCharges(orderData, sameState, deliveryChargesOf(orderData))

---------------------------------------------------------------------------
(* Numbers as text.                                                        *)

\* the decimal digits of a natural number
RECURSIVE DigitsOf(_)
DigitsOf(n) ==
    IF n < 10 THEN SubSeq("0123456789", n + 1, n + 1)
    ELSE DigitsOf(n \div 10) \o SubSeq("0123456789", (n % 10) + 1, (n % 10) + 1)

\* x.toFixed(2) of a finite number: two decimals, a tie rounded away from
\* zero, "-" in front of a negative number
ToFixed2(x) ==
    LET mag == IF x[1] < 0 THEN RNeg(x) ELSE x
        hundredths == MathFloor(RAdd(RMul(mag, Num(100)), Rat(1, 2)))
        frac == hundredths % 100
    IN  (IF x[1] < 0 THEN "-" ELSE "")
          \o DigitsOf(hundredths \div 100) \o "."
          \o (IF frac < 10 THEN "0" ELSE "") \o DigitsOf(frac)

\* the digits after the decimal point of r/den (0 <= r < den), at most
\* MaxFractionDigits of them
RECURSIVE FractionDigits(_, _, _)
FractionDigits(r, den, left) ==
    IF r = 0 \/ left = 0 THEN ""
    ELSE DigitsOf((r * 10) \div den)
           \o FractionDigits((r * 10) % den, den, left - 1)

\* String(x) of a finite number, as a template literal prints it
NumberToString(x) ==
    LET mag == IF x[1] < 0 THEN RNeg(x) ELSE x
        whole == mag[1] \div mag[2]
        r == mag[1] % mag[2]
    IN  (IF x[1] < 0 THEN "-" ELSE "")
          \o DigitsOf(whole)
          \o (IF r = 0 THEN ""
              ELSE "." \o FractionDigits(r, mag[2], MaxFractionDigits))

---------------------------------------------------------------------------
(* The calculateTaxes helper of the invoice template.  A state argument is *)
(* a record [k, v]: k is "string" with the text v, or "undefined" or       *)
(* "null" (v is then "").                                                  *)

\* c.toLowerCase() of one character
LowerChar(c) ==
    IF \E i \in 1..26 : SubSeq("ABCDEFGHIJKLMNOPQRSTUVWXYZ", i, i) = c
    THEN LET i == CHOOSE j \in 1..26 :
                      SubSeq("ABCDEFGHIJKLMNOPQRSTUVWXYZ", j, j) = c
         IN  SubSeq("abcdefghijklmnopqrstuvwxyz", i, i)
    ELSE c

RECURSIVE ToLowerCase(_)
ToLowerCase(s) ==
    IF s = "" THEN "" ELSE LowerChar(SubSeq(s, 1, 1)) \o ToLowerCase(Tail(s))

\* s.replace(/[^a-z]/g, "")
RECURSIVE KeepLowerLetters(_)
KeepLowerLetters(s) ==
    IF s = "" THEN ""
    ELSE (IF \E i \in 1..26 :
                 SubSeq("abcdefghijklmnopqrstuvwxyz", i, i) = SubSeq(s, 1, 1)
          THEN SubSeq(s, 1, 1) ELSE "")
           \o KeepLowerLetters(Tail(s))

stateMap ==
    [hp |-> "himachalpradesh", mp |-> "madhyapradesh", up |-> "uttarpradesh",
     ap |-> "andhrapradesh", tn |-> "tamilnadu", ka |-> "karnataka",
     mh |-> "maharashtra", gj |-> "gujarat", rj |-> "rajasthan",
     wb |-> "westbengal", pb |-> "punjab", hr |-> "haryana", kl |-> "kerala",
     or |-> "odisha", br |-> "bihar", jh |-> "jharkhand",
     ct |-> "chhattisgarh", ga |-> "goa", mn |-> "manipur",
     ml |-> "meghalaya", tr |-> "tripura", ar |-> "arunachalpradesh",
     nl |-> "nagaland", mz |-> "mizoram", sk |-> "sikkim", dl |-> "delhi",
     ch |-> "chandigarh", py |-> "pondicherry", an |-> "andamanandnicobar",
     dn |-> "dadraandnagarhaveli", dd |-> "damananddiu", ld |-> "lakshadweep",
     jk |-> "jammukashmir", la |-> "ladakh", ut |-> "uttarakhand",
     ts |-> "telangana"]

normalizeState(state) ==
    IF state = "" THEN ""
    ELSE LET normalized == KeepLowerLetters(ToLowerCase(Trim(state)))
         IN  IF normalized \in DOMAIN stateMap
             THEN stateMap[normalized] ELSE normalized

\* String(state || "") and state || "": the text of a state argument
StateText(state) == IF state.k = "string" THEN state.v ELSE ""

\* mutant: empty states are compared like any others
calculateTaxes_NoEmptyCheck(price, qty, rate, buyer, seller) ==
    LET totalPrice == RMul(price, Num(qty))
        base == IF RLess(Zero, rate)
                THEN RDiv(totalPrice, RAdd(Num(1), RDiv(rate, Num(100))))
                ELSE totalPrice
        taxAmount == RSub(totalPrice, base)
        normalizedBuyerState == normalizeState(StateText(buyer))
        normalizedSellerState == normalizeState(StateText(seller))
    IN  IF normalizedBuyerState = normalizedSellerState
        THEN LET halfAmount == RDiv(taxAmount, Num(2))
             IN  "SGST @ " \o NumberToString(RDiv(rate, Num(2))) \o "% i.e. "
                   \o ToFixed2(halfAmount) \o "<br>CGST @ "
                   \o NumberToString(RDiv(rate, Num(2))) \o "% i.e. "
                   \o ToFixed2(halfAmount)
        ELSE "IGST @ " \o NumberToString(rate) \o "% i.e. "
               \o ToFixed2(taxAmount)

calculateTaxes(price, qty, rate, buyer, seller) ==
    LET totalPrice == RMul(price, Num(qty))
        base == IF RLess(Zero, rate)
                THEN RDiv(totalPrice, RAdd(Num(1), RDiv(rate, Num(100))))
                ELSE totalPrice
        taxAmount == RSub(totalPrice, base)
        normalizedBuyerState == normalizeState(StateText(buyer))
        normalizedSellerState == normalizeState(StateText(seller))
    IN  IF /\ normalizedBuyerState # ""
           /\ normalizedSellerState # ""
           /\ normalizedBuyerState = normalizedSellerState
        THEN LET halfAmount == RDiv(taxAmount, Num(2))
             IN  "SGST @ " \o NumberToString(RDiv(rate, Num(2))) \o "% i.e. "
                   \o ToFixed2(halfAmount) \o "<br>CGST @ "
                   \o NumberToString(RDiv(rate, Num(2))) \o "% i.e. "
                   \o ToFixed2(halfAmount)
        ELSE "IGST @ " \o NumberToString(rate) \o "% i.e. "
               \o ToFixed2(taxAmount)

\* calculateGstBreakdown called with two arguments: isSameState takes its
\* default value
calculateGstBreakdownDefault(price, rate) ==
    calculateGstBreakdown(price, rate, FALSE)

---------------------------------------------------------------------------
(* The amountInWords helper of the invoice template, with its own          *)
(* three-digit converter, and the text the template prints after it.       *)

amountInWordsLessThanThousand(n) ==
    IF n = 0 THEN ""
    ELSE
        LET w1 == IF n >= 100
                  THEN At(ones, MathFloor(Rat(n, 100))) \o " Hundred " ELSE ""
            n1 == IF n >= 100 THEN JsRem(n, 100) ELSE n
            w2 == IF n1 > 0
                  THEN IF n1 < 10 THEN w1 \o At(ones, n1)
                       ELSE IF n1 < 20 THEN w1 \o At(teens, n1 - 10)
                       ELSE w1 \o At(tens, MathFloor(Rat(n1, 10)))
                              \o (IF JsRem(n1, 10) > 0
                                  THEN " " \o At(ones, JsRem(n1, 10)) ELSE "")
                  ELSE w1
        IN  Trim(w2)

amountInWords(amt) ==
    IF amt = Zero THEN "Zero Rupees"
    ELSE
        LET rupees0 == MathFloor(amt)
            paise == MathRound(RMul(RSub(amt, Num(rupees0)), Num(100)))
            w1 == IF rupees0 >= 10000000
                  THEN amountInWordsLessThanThousand(rupees0 \div 10000000)
                         \o " Crore "
                  ELSE ""
            rupees1 == IF rupees0 >= 10000000
                       THEN JsRem(rupees0, 10000000) ELSE rupees0
            w2 == IF rupees1 >= 100000
                  THEN w1 \o amountInWordsLessThanThousand(rupees1 \div 100000)
                          \o " Lakh "
                  ELSE w1
            rupees2 == IF rupees1 >= 100000
                       THEN JsRem(rupees1, 100000) ELSE rupees1
            w3 == IF rupees2 >= 1000
                  THEN w2 \o amountInWordsLessThanThousand(rupees2 \div 1000)
                          \o " Thousand "
                  ELSE w2
            rupees3 == IF rupees2 >= 1000 THEN JsRem(rupees2, 1000) ELSE rupees2
            w4 == IF rupees3 > 0
                  THEN w3 \o amountInWordsLessThanThousand(rupees3) ELSE w3
            w5 == IF w4 # "" THEN w4 \o " Rupees" ELSE w4
            w6 == IF paise > 0
                  THEN w5 \o " and " \o amountInWordsLessThanThousand(paise)
                          \o " Paise"
                  ELSE w5
        IN  Trim(w6)

---------------------------------------------------------------------------
(* The two invoice routes.  A request is what the handler reads of it: the *)
(* route, req.isAuthenticated(), req.user.role and whether req.user.id is  *)
(* the order's userId; storage answers whether the order exists and        *)
(* whether it has products of the requesting seller.                       *)

\* res.sendStatus(code)
sendStatus(code) == [status |-> code, body |-> "status"]

\* res.status(code).json({ error })
jsonError(code) == [status |-> code, body |-> "error"]

\* res.send(pdfBuffer) and res.json(invoiceData)
sendInvoice(route) ==
    [status |-> 200, body |-> IF route = "tax-invoice" THEN "pdf" ELSE "json"]

\* mutant: the access control check lets every requester through
isAuthorized_Everyone(isAdmin, isBuyer, isSeller) == TRUE

\* the negation of the condition of the 403 response
isAuthorized(isAdmin, isBuyer, isSeller) ==
    ~(~isAdmin /\ ~isBuyer /\ ~isSeller)

---------------------------------------------------------------------------
(* generateInvoiceHtml: the QR code of an invoice.  A helper registered on *)
(* the global Handlebars instance is a closure; the registry holds, for    *)
(* qrCode, the data URL the closure has captured.  The QR encoding itself  *)
(* is a library call: its result stands for the data it encodes.           *)

\* the text encoded in the QR code of an order
qrDataOf(orderId) ==
    "https://krpl.lelekart.in/orders/" \o NumberToString(Num(orderId))

\* QRCode.toDataURL(qrData, ...)
toDataURL(qrData) == "data:image/png;base64," \o qrData

\* mutant: a helper already registered is kept
registerHelper_KeepFirst(registry, name, f) ==
    IF registry[name] = "" THEN [registry EXCEPT ![name] = f] ELSE registry

\* handlebars.registerHelper(name, f)
registerHelper(registry, name, f) == [registry EXCEPT ![name] = f]

\* the qrCode helper, called with the data URL it has captured
qrCodeHelper(qrCodeDataUrl) ==
    "<img src=\"" \o qrCodeDataUrl
      \o "\" alt=\"Invoice QR Code\" style=\"width: 75px; height: 75px;\">"

\* template(data): the QR section, where {{{qrCode}}} calls the helper
\* registered under that name
renderQrSection(registry) ==
    "<div class=\"qr-section\">" \o qrCodeHelper(registry.qrCode) \o "</div>"

---------------------------------------------------------------------------
(* The display formatters.  Their arguments range over every JavaScript    *)
(* value a caller can pass for a number: a record [k, v] where k is "num"  *)
(* with the finite value v, or "NaN", "Infinity", "-Infinity",             *)
(* "undefined" or "null" (v is then 0).  Arithmetic follows IEEE-754 on    *)
(* the special values; the sign of a zero is not tracked (no divisor here  *)
(* is zero: rates are non-negative).                                       *)

JsNum(x) == [k |-> "num", v |-> x]
\* NaN, Infinity, -Infinity, undefined and null
JsSpecial(kind) == [k |-> kind, v |-> Zero]

\* the number an operand of an arithmetic operator is converted to
ToNumber(a) ==
    IF a.k = "undefined" THEN JsSpecial("NaN")
    ELSE IF a.k = "null" THEN JsNum(Zero)
    ELSE a

\* -1, 0 or 1: the sign of a number that is not NaN
SignOf(a) ==
    IF a.k = "Infinity" THEN 1
    ELSE IF a.k = "-Infinity" THEN 0 - 1
    ELSE IF a.v[1] > 0 THEN 1 ELSE IF a.v[1] < 0 THEN 0 - 1 ELSE 0

InfinityOfSign(sgn) == IF sgn > 0 THEN JsSpecial("Infinity") ELSE JsSpecial("-Infinity")

IsInfinite(a) == a.k \in {"Infinity", "-Infinity"}

\* a * b
JsMul(a0, b0) ==
    LET a == ToNumber(a0)
        b == ToNumber(b0)
    IN  IF a.k = "NaN" \/ b.k = "NaN" THEN JsSpecial("NaN")
        ELSE IF IsInfinite(a) \/ IsInfinite(b)
        THEN IF SignOf(a) * SignOf(b) = 0 THEN JsSpecial("NaN")
             ELSE InfinityOfSign(SignOf(a) * SignOf(b))
        ELSE JsNum(RMul(a.v, b.v))

\* a / b
JsDiv(a0, b0) ==
    LET a == ToNumber(a0)
        b == ToNumber(b0)
    IN  IF a.k = "NaN" \/ b.k = "NaN" THEN JsSpecial("NaN")
        ELSE IF IsInfinite(a)
        THEN IF IsInfinite(b) THEN JsSpecial("NaN")
             ELSE InfinityOfSign(SignOf(a) * (IF SignOf(b) < 0 THEN 0 - 1 ELSE 1))
        ELSE IF IsInfinite(b) THEN JsNum(Zero)
        ELSE IF b.v = Zero
        THEN IF a.v = Zero THEN JsSpecial("NaN") ELSE InfinityOfSign(SignOf(a))
        ELSE JsNum(RDiv(a.v, b.v))

\* a + b
JsAdd(a0, b0) ==
    LET a == ToNumber(a0)
        b == ToNumber(b0)
    IN  IF a.k = "NaN" \/ b.k = "NaN" THEN JsSpecial("NaN")
        ELSE IF IsInfinite(a)
        THEN IF IsInfinite(b) /\ a.k # b.k THEN JsSpecial("NaN") ELSE a
        ELSE IF IsInfinite(b) THEN b
        ELSE JsNum(RAdd(a.v, b.v))

\* a - b
JsSub(a0, b0) ==
    LET b == ToNumber(b0)
        negB == IF b.k = "NaN" THEN JsSpecial("NaN")
                ELSE IF IsInfinite(b) THEN InfinityOfSign(0 - SignOf(b))
                ELSE JsNum(RNeg(b.v))
    IN  JsAdd(a0, negB)

\* isNaN(a)
IsNaN(a) == ToNumber(a).k = "NaN"

\* !a
IsFalsy(a) ==
    a.k \in {"NaN", "undefined", "null"} \/ (a.k = "num" /\ a.v = Zero)

\* String(a), as string concatenation and a template literal print a
JsToString(a) == IF a.k = "num" THEN NumberToString(a.v) ELSE a.k

\* a.toFixed(2) of a number
JsToFixed2(a) == IF a.k = "num" THEN ToFixed2(a.v) ELSE a.k

\* the functions of the GST math primitives on these values
calculateGstAmountJs(price, rate) == JsDiv(JsMul(price, rate), JsNum(Num(100)))

calculateBasePriceJs(price, rate) ==
    JsDiv(price, JsAdd(JsNum(Num(1)), JsDiv(rate, JsNum(Num(100)))))

\* the string returned for a price the guard rejects
ZeroDisplay(rate) ==
    "₹0.00 (₹0.00 + ₹0.00 GST @ "
      \o JsToString(IF IsFalsy(rate) THEN JsNum(Zero) ELSE rate) \o "%)"

formatPriceWithGstBreakdown(base, rate) ==
    IF base.k = "undefined" \/ IsNaN(base) \/ base.k = "null"
    THEN ZeroDisplay(rate)
    ELSE LET gstAmount == calculateGstAmountJs(base, rate)
             totalPrice == JsAdd(base, gstAmount)
             formattedTotal == JsToFixed2(totalPrice)
             formattedBase == JsToFixed2(base)
             formattedGst == JsToFixed2(gstAmount)
         IN  "₹" \o formattedTotal \o " (₹" \o formattedBase \o " + ₹"
               \o formattedGst \o " GST @ " \o JsToString(rate) \o "%)"

formatGstInclusivePriceBreakdown(price, rate) ==
    IF price.k = "undefined" \/ IsNaN(price) \/ price.k = "null"
    THEN ZeroDisplay(rate)
    ELSE LET base == calculateBasePriceJs(price, rate)
             gstAmount == JsSub(price, base)
             formattedTotal == JsToFixed2(price)
             formattedBase == JsToFixed2(base)
             formattedGst == JsToFixed2(gstAmount)
         IN  "₹" \o formattedTotal \o " (₹" \o formattedBase \o " + ₹"
               \o formattedGst \o " GST @ " \o JsToString(rate) \o "%)"

---------------------------------------------------------------------------
(* Arguments.                                                              *)

Prices == {Rat(n, 4) : n \in (0 - MinPriceQuarters)..MaxPriceQuarters}

\* the GST slabs, two rates outside the slabs, and the rate 100 %
Rates == {Num(0), Rat(1, 4), Num(3), Num(5), Num(12), Num(18), Num(28),
          Num(100)}

NoBreakdown == calculateGstBreakdown(Zero, Zero, FALSE)

\* every thousandth of a rupee up to MaxAmountMilli/1000, every whole rupee
\* up to MaxRupees, and rupee values at the boundaries of the digit groups
\* with a few paise values
Amounts ==
    {Rat(k, 1000) : k \in 0..MaxAmountMilli}
      \cup {Num(r) : r \in 0..MaxRupees}
      \cup {RAdd(Num(r), Rat(c, 100)) :
               r \in {0, 1, 2, 9, 10, 11, 19, 20, 21, 99, 100, 101, 110, 999,
                      1000, 1001, 1100, 9999, 10000, 99999, 100000, 100001,
                      123456, 9999999, 10000000, 10000001, 12345678},
               c \in {0, 1, 10, 19, 50, 99}}

\* the rupee values 1 .. MaxRefRupees with 0 and with 99 paise, and rupee
\* values at the group boundaries with every paise value
RefAmounts ==
    {RAdd(Num(r), Rat(c, 100)) : r \in 1..MaxRefRupees, c \in {0, 99}}
      \cup {RAdd(Num(r), Rat(c, 100)) : r \in {1, 19, 20, 101, 1000, 9999},
                                         c \in 0..99}

\* whole rupee values with lakh and crore groups, up to 99,99,99,999
LargeRupees ==
    {10000, 10001, 99999, 100000, 100001, 110000, 1000000, 1234567,
     2000019, 9999999, 10000000, 10000001, 10100000, 12345678, 100000000,
     190000000, 200000020, 909090909, 990000000, 999999999}

\* order items: whole and fractional unit prices, a taxed and an exempt rate
Items ==
    [inclusivePrice : {Num(10), Rat(199, 2), Num(118), Num(236)},
     gstRate : {Num(0), Num(18)},
     quantity : 1..MaxQuantity]
ItemLists == UNION {[1..k -> Items] : k \in 0..MaxItems}

\* delivery: free, whole, fractional, and a negative charge (an order total
\* below the items total)
Deliveries ==
    [inclusiveCharges : {Num(0), Num(59), Rat(81, 2), Num(0 - 59)},
     gstRate : {Num(18)}]

NoDelivery == [inclusiveCharges |-> Zero, gstRate |-> Zero]
NoOrder == calculateOrder(<<>>, NoDelivery, FALSE)
NoInvoice == calculateInvoiceData(<<>>, Zero, Zero, FALSE)
NoInvoiceData == generateInvoiceData([total |-> Zero, items |-> <<>>], FALSE)

\* state arguments: missing, empty, blank, names and abbreviations in several
\* spellings, and a state code without letters
NoState == [k |-> "undefined", v |-> ""]
States ==
    {NoState, [k |-> "null", v |-> ""]}
      \cup {[k |-> "string", v |-> t] :
               t \in {"", "  ", "MH", "Maharashtra", " maharashtra",
                      "Karnataka", "KA", "27"}}

\* a buyer and a seller of the same state, written in two ways: every state
\* and union territory by its two-letter abbreviation and by its name, and
\* texts that differ only in letter case, whitespace or punctuation
SameStatePairs ==
    { <<"AP", "Andhra Pradesh">>, <<"AR", "Arunachal Pradesh">>,
      <<"AS", "Assam">>, <<"BR", "Bihar">>, <<"CT", "Chhattisgarh">>,
      <<"GA", "Goa">>, <<"GJ", "Gujarat">>, <<"HR", "Haryana">>,
      <<"HP", "Himachal Pradesh">>, <<"JH", "Jharkhand">>,
      <<"KA", "Karnataka">>, <<"KL", "Kerala">>, <<"MP", "Madhya Pradesh">>,
      <<"MH", "Maharashtra">>, <<"MN", "Manipur">>, <<"ML", "Meghalaya">>,
      <<"MZ", "Mizoram">>, <<"NL", "Nagaland">>, <<"OR", "Odisha">>,
      <<"PB", "Punjab">>, <<"RJ", "Rajasthan">>, <<"SK", "Sikkim">>,
      <<"TN", "Tamil Nadu">>, <<"TS", "Telangana">>, <<"TR", "Tripura">>,
      <<"UP", "Uttar Pradesh">>, <<"UT", "Uttarakhand">>,
      <<"WB", "West Bengal">>,
      <<"AN", "Andaman and Nicobar Islands">>, <<"CH", "Chandigarh">>,
      <<"DN", "Dadra and Nagar Haveli">>, <<"DD", "Daman and Diu">>,
      <<"DL", "Delhi">>, <<"JK", "Jammu and Kashmir">>, <<"LA", "Ladakh">>,
      <<"LD", "Lakshadweep">>, <<"PY", "Puducherry">> }
      \cup
    { <<"Tamil Nadu", "TAMIL-NADU">>, <<"tamilnadu", " Tamil  Nadu. ">>,
      <<"M.H.", "mh">>, <<"Jammu & Kashmir", "jammu kashmir">>,
      <<"West Bengal", "west_bengal">>, <<"Goa", "GOA">> }

\* what a caller can pass for a number that is not a finite number
NonFinite == {JsSpecial("NaN"), JsSpecial("Infinity"), JsSpecial("-Infinity"), JsSpecial("undefined"), JsSpecial("null")}

\* rupee values of 1 crore up to 10^12: the crores and the part below a crore
WideRupees ==
    [crores : {1, 99, 100, 999, 1000, 1001, 1234, 9999, 12345, 100000},
     below : {0, 1, 1234567, 9999999}]

\* the requests of the two routes and what storage can hold for them
Requests ==
    [route : {"tax-invoice", "invoice-data"}, isAuthenticated : BOOLEAN,
     role : {"admin", "seller", "buyer"}, isOrderBuyer : BOOLEAN]
StoredFacts == [orderExists : BOOLEAN, orderHasSellerProducts : BOOLEAN]
NoResponse == [status |-> 0, body |-> "none"]

\* two calls of generateInvoiceHtml in flight, and the orders they are for
HtmlCalls == 1 .. 2
OrderIds == 1 .. MaxOrderId

---------------------------------------------------------------------------
(* Calls.  A run is one request: it starts with the arguments of a call,   *)
(* and the call records what the function returns.                         *)

\* the variables of the groups of functions in S hold what they hold when
\* no function of the group is called or to be called
Idle(S) ==
    /\ IF "gst" \in S
       THEN /\ inclusivePrice = Zero
            /\ gstRate = Zero
            /\ isSameState = FALSE
            /\ breakdown = NoBreakdown
            /\ basePrice = Zero
            /\ priceWithGst = Zero
       ELSE TRUE
    /\ IF "order" \in S
       THEN /\ items = <<>>
            /\ delivery = NoDelivery
            /\ order = NoOrder
            /\ invoice = NoInvoice
            /\ invoiceData = NoInvoiceData
       ELSE TRUE
    /\ IF "taxes" \in S
       THEN /\ taxQuantity = 1
            /\ buyerState = NoState
            /\ sellerState = NoState
            /\ taxes = ""
       ELSE TRUE
    /\ IF "format" \in S
       THEN /\ fmtPrice = JsNum(Zero)
            /\ fmtRate = JsNum(Zero)
            /\ formatted = ""
       ELSE TRUE
    /\ IF "wide" \in S
       THEN wideRupees = [crores |-> 0, below |-> 0]
       ELSE TRUE
    /\ IF "helper" \in S THEN helperWords = "" ELSE TRUE
    /\ IF "algebra" \in S
       THEN extractedGst = Zero /\ gstOnBase = Zero
       ELSE TRUE
    /\ IF "route" \in S
       THEN /\ req = [route |-> "none", isAuthenticated |-> FALSE,
                      role |-> "none", isOrderBuyer |-> FALSE]
            /\ storage = [orderExists |-> FALSE,
                          orderHasSellerProducts |-> FALSE]
            /\ res = NoResponse
            /\ routePc = "idle"
            /\ calls = << >>
            /\ threw = FALSE
       ELSE TRUE
    /\ IF "html" \in S
       THEN /\ htmlPc = [p \in HtmlCalls |-> "idle"]
            /\ htmlOrder = [p \in HtmlCalls |-> 0]
            /\ helpers = [qrCode |-> ""]
            /\ html = [p \in HtmlCalls |-> ""]
       ELSE TRUE

InitGst ==
    /\ fn = "none"
    /\ Idle({"order", "taxes", "format", "wide", "helper", "algebra", "route", "html"})
    /\ inclusivePrice \in Prices
    /\ gstRate \in Rates
    /\ isSameState \in BOOLEAN
    /\ breakdown = NoBreakdown
    /\ basePrice = Zero
    /\ priceWithGst = Zero
    /\ amount = Zero
    /\ words = ""
    /\ wholeRupees = 0

CallCalculateGstBreakdown ==
    /\ fn = "none"
    /\ fn' = "calculateGstBreakdown"
    /\ breakdown' = calculateGstBreakdown(inclusivePrice, gstRate, isSameState)
    /\ UNCHANGED <<inclusivePrice, gstRate, isSameState, basePrice,
                   priceWithGst, amount, words>>
    /\ UNCHANGED <<wholeRupees, laterVars>>

\* a caller extracts the base price of an inclusive price ...
CallCalculateBasePrice ==
    /\ fn = "none"
    /\ fn' = "calculateBasePrice"
    /\ basePrice' = calculateBasePrice(inclusivePrice, gstRate)
    /\ UNCHANGED <<inclusivePrice, gstRate, isSameState, breakdown,
                   priceWithGst, amount, words>>
    /\ UNCHANGED <<wholeRupees, laterVars>>

\* ... and applies GST at the same rate to the base price it got
CallCalculatePriceWithGst ==
    /\ fn = "calculateBasePrice"
    /\ fn' = "calculatePriceWithGst"
    /\ priceWithGst' = calculatePriceWithGst(basePrice, gstRate)
    /\ UNCHANGED <<inclusivePrice, gstRate, isSameState, breakdown,
                   basePrice, amount, words>>
    /\ UNCHANGED <<wholeRupees, laterVars>>

NextGst ==
    \/ CallCalculateGstBreakdown
    \/ CallCalculateBasePrice
    \/ CallCalculatePriceWithGst

SpecGst == InitGst /\ [][NextGst]_vars

(* The GST of an inclusive price, computed in two ways: on its base price  *)
(* and by extraction.                                                      *)
InitGstAlgebra ==
    /\ fn = "none"
    /\ inclusivePrice \in Prices
    \* the rates of the slabs and rates below zero on both sides of -100; at
    \* -100 itself the divisor 1 + gstRate / 100 is zero
    /\ gstRate \in Rates \cup {Num(0 - 200), Num(0 - 101), Num(0 - 99),
                               Num(0 - 50), Num(0 - 18), Rat(0 - 1, 4)}
    /\ isSameState = FALSE
    /\ breakdown = NoBreakdown
    /\ basePrice = Zero
    /\ priceWithGst = Zero
    /\ amount = Zero
    /\ words = ""
    /\ wholeRupees = 0
    /\ Idle({"order", "taxes", "format", "wide", "helper", "algebra", "route", "html"})

\* calculateGstAmount(basePrice, gstRate) for the base price just computed
CallCalculateGstAmount ==
    /\ fn = "calculateBasePrice"
    /\ fn' = "calculateGstAmount"
    /\ gstOnBase' = calculateGstAmount(basePrice, gstRate)
    /\ UNCHANGED <<gstVars, wordsVars, orderVars, taxesVars, formatVars>>
    /\ UNCHANGED <<wideRupees, helperWords, extractedGst, routeVars, htmlVars>>

\* extractGstAmount(inclusivePrice, gstRate) for the same price and rate
CallExtractGstAmount ==
    /\ fn = "calculateGstAmount"
    /\ fn' = "extractGstAmount"
    /\ extractedGst' = extractGstAmount(inclusivePrice, gstRate)
    /\ UNCHANGED <<gstVars, wordsVars, orderVars, taxesVars, formatVars>>
    /\ UNCHANGED <<wideRupees, helperWords, gstOnBase, routeVars, htmlVars>>

NextGstAlgebra ==
    \/ CallCalculateBasePrice
    \/ CallCalculateGstAmount
    \/ CallExtractGstAmount

SpecGstAlgebra == InitGstAlgebra /\ [][NextGstAlgebra]_vars

InitWords ==
    /\ fn = "none"
    /\ Idle({"order", "taxes", "format", "wide", "helper", "algebra", "route", "html"})
    /\ inclusivePrice = Zero
    /\ gstRate = Zero
    /\ isSameState = FALSE
    /\ breakdown = NoBreakdown
    /\ basePrice = Zero
    /\ priceWithGst = Zero
    /\ amount \in Amounts
    /\ words = ""
    /\ wholeRupees = 0

CallConvertAmountToWords ==
    /\ fn = "none"
    /\ fn' = "convertAmountToWords"
    /\ words' = convertAmountToWords(amount)
    /\ UNCHANGED <<inclusivePrice, gstRate, isSameState, breakdown,
                   basePrice, priceWithGst, amount>>
    /\ UNCHANGED <<wholeRupees, laterVars>>

\* the invoice template rendered for the same amount:
\* {{amountInWords total}} Only
CallAmountInWords ==
    /\ fn = "convertAmountToWords"
    /\ fn' = "amountInWords"
    /\ helperWords' = amountInWords(amount) \o " Only"
    /\ UNCHANGED <<gstVars, wordsVars, orderVars, taxesVars, formatVars>>
    /\ UNCHANGED <<wideRupees, extractedGst, gstOnBase, routeVars, htmlVars>>

\* both texts of one amount
NextWords == CallConvertAmountToWords \/ CallAmountInWords

SpecWords == InitWords /\ [][NextWords]_vars

\* amounts of 1 .. MaxRefRupees rupees with no paise and with 99 paise, and
\* amounts at the group boundaries with every paise value
InitRupeeWords ==
    /\ fn = "none"
    /\ Idle({"gst", "order", "taxes", "format", "helper", "algebra", "route", "html"})
    /\ words = ""
    /\ \/ amount \in RefAmounts /\ wholeRupees = 0 /\ Idle({"wide"})
       \/ amount = Zero /\ wholeRupees \in LargeRupees /\ Idle({"wide"})
       \/ amount = Zero /\ wholeRupees = 0 /\ wideRupees \in WideRupees

\* convertToWords(wholeRupees), as convertAmountToWords calls it on the rupee part
\* of a whole amount
CallConvertToWords ==
    /\ fn = "none"
    /\ fn' = "convertToWords"
    /\ words' = convertToWords(wholeRupees)
    /\ UNCHANGED <<gstVars, amount, wholeRupees, laterVars>>

\* convertToWords(n) for the rupee part n of an amount of a crore and more
CallConvertToWordsWide ==
    /\ fn = "none"
    /\ fn' = "convertToWordsWide"
    /\ words' = convertToWordsWide(wideRupees)
    /\ UNCHANGED <<gstVars, amount, wholeRupees, laterVars>>

NextRupeeWords ==
    \/ CallConvertAmountToWords
    \/ CallConvertToWords
    \/ CallConvertToWordsWide

SpecRupeeWords == InitRupeeWords /\ [][NextRupeeWords]_vars

\* an order: its items, its delivery charge, and whether the seller's and the
\* buyer's PIN codes lie in the same state
InitOrder ==
    /\ fn = "none"
    /\ items \in ItemLists
    /\ delivery \in Deliveries
    /\ isSameState \in BOOLEAN
    /\ order = NoOrder
    /\ invoice = NoInvoice
    /\ invoiceData = NoInvoiceData
    /\ Idle({"taxes", "format", "wide", "helper", "algebra", "route", "html"})
    /\ inclusivePrice = Zero
    /\ gstRate = Zero
    /\ breakdown = NoBreakdown
    /\ basePrice = Zero
    /\ priceWithGst = Zero
    /\ amount = Zero
    /\ words = ""
    /\ wholeRupees = 0

CallCalculateOrder ==
    /\ fn = "none"
    /\ fn' = "calculateOrder"
    /\ order' = calculateOrder(items, delivery, isSameState)
    /\ UNCHANGED <<gstVars, wordsVars, items, delivery, invoice, invoiceData>>
    /\ UNCHANGED <<taxesVars, formatVars, wideRupees, helperWords>>
    /\ UNCHANGED <<extractedGst, gstOnBase, routeVars, htmlVars>>

CallCalculateInvoiceData ==
    /\ fn = "none"
    /\ fn' = "calculateInvoiceData"
    /\ invoice' = calculateInvoiceData(items, delivery.inclusiveCharges, delivery.gstRate, isSameState)
    /\ UNCHANGED <<gstVars, wordsVars, items, delivery, order, invoiceData>>
    /\ UNCHANGED <<taxesVars, formatVars, wideRupees, helperWords>>
    /\ UNCHANGED <<extractedGst, gstOnBase, routeVars, htmlVars>>

\* the calculated order is stored, and the invoice service generates the
\* invoice of the stored order
CallGenerateInvoiceData ==
    /\ fn = "calculateOrder"
    /\ fn' = "generateInvoiceData"
    /\ \E sameState \in BOOLEAN :
          invoiceData' = generateInvoiceData(orderDataOf(formatForDatabase(order), items), sameState)
    /\ UNCHANGED <<gstVars, wordsVars, items, delivery, order, invoice>>
    /\ UNCHANGED <<taxesVars, formatVars, wideRupees, helperWords>>
    /\ UNCHANGED <<extractedGst, gstOnBase, routeVars, htmlVars>>

NextOrder ==
    \/ CallCalculateOrder
    \/ CallCalculateInvoiceData
    \/ CallGenerateInvoiceData

SpecOrder == InitOrder /\ [][NextOrder]_vars

\* an invoice line of the template, or a breakdown asked for without saying
\* whether the supply is intra-state
InitTaxes ==
    /\ fn = "none"
    /\ inclusivePrice \in {Num(100), Num(118), Rat(199, 2)}
    /\ gstRate \in Rates
    /\ taxQuantity \in 1..MaxQuantity
    /\ \/ buyerState \in States /\ sellerState \in States
       \/ \E p \in SameStatePairs :
             /\ buyerState = [k |-> "string", v |-> p[1]]
             /\ sellerState = [k |-> "string", v |-> p[2]]
    /\ taxes = ""
    /\ isSameState = FALSE
    /\ breakdown = NoBreakdown
    /\ basePrice = Zero
    /\ priceWithGst = Zero
    /\ amount = Zero
    /\ words = ""
    /\ wholeRupees = 0
    /\ Idle({"order", "format", "wide", "helper", "algebra", "route", "html"})

CallCalculateTaxes ==
    /\ fn = "none"
    /\ fn' = "calculateTaxes"
    /\ taxes' = calculateTaxes(inclusivePrice, taxQuantity, gstRate, buyerState, sellerState)
    /\ UNCHANGED <<gstVars, wordsVars, orderVars, formatVars>>
    /\ UNCHANGED <<wideRupees, helperWords, extractedGst, gstOnBase>>
    /\ UNCHANGED <<routeVars, htmlVars>>
    /\ UNCHANGED <<taxQuantity, buyerState, sellerState>>

CallCalculateGstBreakdownDefault ==
    /\ fn = "none"
    /\ fn' = "calculateGstBreakdownDefault"
    /\ breakdown' = calculateGstBreakdownDefault(inclusivePrice, gstRate)
    /\ UNCHANGED <<inclusivePrice, gstRate, isSameState, basePrice, priceWithGst>>
    /\ UNCHANGED <<wordsVars, laterVars>>

NextTaxes == CallCalculateTaxes \/ CallCalculateGstBreakdownDefault

SpecTaxes == InitTaxes /\ [][NextTaxes]_vars

\* a price and a rate to display
InitFormat ==
    /\ fn = "none"
    /\ fmtPrice \in {JsNum(p) : p \in Prices} \cup NonFinite
    /\ fmtRate \in {JsNum(r) : r \in Rates} \cup NonFinite
    /\ formatted = ""
    /\ amount = Zero
    /\ words = ""
    /\ wholeRupees = 0
    /\ Idle({"gst", "order", "taxes", "wide", "helper", "algebra", "route", "html"})

CallFormatPriceWithGstBreakdown ==
    /\ fn = "none"
    /\ fn' = "formatPriceWithGstBreakdown"
    /\ formatted' = formatPriceWithGstBreakdown(fmtPrice, fmtRate)
    /\ UNCHANGED <<gstVars, wordsVars, orderVars, taxesVars, fmtPrice, fmtRate>>
    /\ UNCHANGED <<wideRupees, helperWords, extractedGst, gstOnBase>>
    /\ UNCHANGED <<routeVars, htmlVars>>

CallFormatGstInclusivePriceBreakdown ==
    /\ fn = "none"
    /\ fn' = "formatGstInclusivePriceBreakdown"
    /\ formatted' = formatGstInclusivePriceBreakdown(fmtPrice, fmtRate)
    /\ UNCHANGED <<gstVars, wordsVars, orderVars, taxesVars, fmtPrice, fmtRate>>
    /\ UNCHANGED <<wideRupees, helperWords, extractedGst, gstOnBase>>
    /\ UNCHANGED <<routeVars, htmlVars>>

NextFormat ==
    \/ CallFormatPriceWithGstBreakdown
    \/ CallFormatGstInclusivePriceBreakdown

SpecFormat == InitFormat /\ [][NextFormat]_vars

(* A request to one of the invoice routes.  The handler runs to its next    *)
(* await in one step; an awaited call returns or throws.                   *)
InitRoute ==
    /\ fn = "none"
    /\ amount = Zero
    /\ words = ""
    /\ wholeRupees = 0
    /\ Idle({"gst", "order", "taxes", "format", "wide", "helper", "algebra", "html"})
    /\ req \in Requests
    /\ storage \in StoredFacts
    /\ res = NoResponse
    /\ routePc = "start"
    /\ calls = << >>
    /\ threw = FALSE

\* what a step of a route handler leaves alone
RouteFrame ==
    UNCHANGED <<fn, gstVars, wordsVars, orderVars, taxesVars, formatVars,
                wideRupees, helperWords, extractedGst, gstOnBase, htmlVars, req, storage>>

\* the catch block: the error is answered with 500
RouteCatch ==
    /\ res' = jsonError(500)
    /\ routePc' = "done"
    /\ threw' = TRUE
    /\ UNCHANGED calls

\* the handler calls f and awaits it
RouteAwait(f) ==
    /\ calls' = Append(calls, f)
    /\ routePc' = f
    /\ UNCHANGED <<res, threw>>

\* the handler responds and returns
RouteRespond(response) ==
    /\ res' = response
    /\ routePc' = "done"
    /\ UNCHANGED <<calls, threw>>

\* the access control checks, once isSeller is known
RouteAccessControl(isSeller) ==
    IF ~isAuthorized(req.role = "admin", req.isOrderBuyer, isSeller)
    THEN RouteRespond(jsonError(403))
    ELSE RouteAwait("generateInvoiceData")

\* the authentication check, and the call of storage.getOrder
RouteEnter ==
    /\ routePc = "start"
    /\ IF ~req.isAuthenticated
       THEN RouteRespond(sendStatus(401))
       ELSE RouteAwait("getOrder")
    /\ RouteFrame

\* storage.getOrder has settled
RouteGetOrderSettles ==
    /\ routePc = "getOrder"
    /\ \/ RouteCatch
       \/ IF ~storage.orderExists
          THEN RouteRespond(jsonError(404))
          ELSE IF req.role = "seller"
               THEN RouteAwait("orderHasSellerProducts")
               ELSE RouteAccessControl(FALSE)
    /\ RouteFrame

\* storage.orderHasSellerProducts has settled
RouteSellerProductsSettles ==
    /\ routePc = "orderHasSellerProducts"
    /\ \/ RouteCatch
       \/ RouteAccessControl(storage.orderHasSellerProducts)
    /\ RouteFrame

\* generateInvoiceData has settled
RouteInvoiceDataSettles ==
    /\ routePc = "generateInvoiceData"
    /\ \/ RouteCatch
       \/ IF req.route = "tax-invoice"
          THEN RouteAwait("generatePdfBuffer")
          ELSE RouteRespond(sendInvoice(req.route))
    /\ RouteFrame

\* generatePdfBuffer has settled
RoutePdfBufferSettles ==
    /\ routePc = "generatePdfBuffer"
    /\ \/ RouteCatch
       \/ RouteRespond(sendInvoice(req.route))
    /\ RouteFrame

NextRoute ==
    \/ RouteEnter
    \/ RouteGetOrderSettles
    \/ RouteSellerProductsSettles
    \/ RouteInvoiceDataSettles
    \/ RoutePdfBufferSettles

SpecRoute == InitRoute /\ [][NextRoute]_vars

(* Two calls of generateInvoiceHtml in flight.  A call runs to its next     *)
(* await in one step; the steps of the two calls interleave freely.        *)
InitHtml ==
    /\ fn = "none"
    /\ amount = Zero
    /\ words = ""
    /\ wholeRupees = 0
    /\ Idle({"gst", "order", "taxes", "format", "wide", "helper", "algebra", "route"})
    /\ htmlPc = [p \in HtmlCalls |-> "start"]
    /\ htmlOrder \in [HtmlCalls -> OrderIds]
    /\ helpers = [qrCode |-> ""]
    /\ html = [p \in HtmlCalls |-> ""]

\* what a step of generateInvoiceHtml leaves alone
HtmlFrame ==
    UNCHANGED <<fn, gstVars, wordsVars, orderVars, taxesVars, formatVars,
                wideRupees, helperWords, extractedGst, gstOnBase, routeVars, htmlOrder>>

\* the call registers its first helpers and awaits the two images
HtmlStart(p) ==
    /\ htmlPc[p] = "start"
    /\ htmlPc' = [htmlPc EXCEPT ![p] = "images"]
    /\ UNCHANGED <<helpers, html>>
    /\ HtmlFrame

\* the images have settled: the call awaits QRCode.toDataURL
HtmlImagesSettle(p) ==
    /\ htmlPc[p] = "images"
    /\ htmlPc' = [htmlPc EXCEPT ![p] = "toDataURL"]
    /\ UNCHANGED <<helpers, html>>
    /\ HtmlFrame

\* QRCode.toDataURL has thrown: the call rethrows
HtmlQrThrows(p) ==
    /\ htmlPc[p] = "toDataURL"
    /\ htmlPc' = [htmlPc EXCEPT ![p] = "failed"]
    /\ UNCHANGED <<helpers, html>>
    /\ HtmlFrame

\* QRCode.toDataURL has returned: the call registers its qrCode helper,
\* compiles the template and renders it
HtmlRender(p) ==
    /\ htmlPc[p] = "toDataURL"
    /\ htmlPc' = [htmlPc EXCEPT ![p] = "done"]
    /\ helpers' = registerHelper(helpers, "qrCode", toDataURL(qrDataOf(htmlOrder[p])))
    /\ html' = [html EXCEPT ![p] = renderQrSection(helpers')]
    /\ HtmlFrame

NextHtml ==
    \E p \in HtmlCalls :
        \/ HtmlStart(p)
        \/ HtmlImagesSettle(p)
        \/ HtmlQrThrows(p)
        \/ HtmlRender(p)

SpecHtml == InitHtml /\ [][NextHtml]_vars

Init ==
    \/ InitGst
    \/ InitGstAlgebra
    \/ InitWords
    \/ InitRupeeWords
    \/ InitOrder
    \/ InitTaxes
    \/ InitFormat
    \/ InitRoute
    \/ InitHtml

Next ==
    \/ NextGst
    \/ NextGstAlgebra
    \/ NextWords
    \/ NextRupeeWords
    \/ NextOrder
    \/ NextTaxes
    \/ NextFormat
    \/ NextRoute
    \/ NextHtml

Spec == Init /\ [][Next]_vars

---------------------------------------------------------------------------
(* Properties of the GST breakdown calculator and the primitives.          *)

Half(x) == RDiv(x, Num(2))
NonZero(x) == x # Zero
CgstSgstPopulated == NonZero(breakdown.cgst) \/ NonZero(breakdown.sgst)
IgstPopulated == NonZero(breakdown.igst)

\* C1: a same-state breakdown has cgst = sgst = totalGst/2, igst = 0,
\* cgstRate = sgstRate = gstRate/2 and igstRate = 0; a different-state one
\* has igst = totalGst, cgst = sgst = 0, igstRate = gstRate and
\* cgstRate = sgstRate = 0.
C1_SplitByState ==
    fn = "calculateGstBreakdown" =>
        IF isSameState
        THEN /\ breakdown.cgst = Half(breakdown.totalGst)
             /\ breakdown.sgst = Half(breakdown.totalGst)
             /\ breakdown.igst = Zero
             /\ breakdown.cgstRate = Half(gstRate)
             /\ breakdown.sgstRate = Half(gstRate)
             /\ breakdown.igstRate = Zero
        ELSE /\ breakdown.igst = breakdown.totalGst
             /\ breakdown.cgst = Zero
             /\ breakdown.sgst = Zero
             /\ breakdown.igstRate = gstRate
             /\ breakdown.cgstRate = Zero
             /\ breakdown.sgstRate = Zero

C1_Witness ==
    /\ fn = "calculateGstBreakdown"
    /\ isSameState
    /\ inclusivePrice = Num(118)
    /\ gstRate = Num(18)
    /\ breakdown.cgst = Num(9)
    /\ breakdown.sgst = Num(9)
    /\ breakdown.cgstRate = Num(9)
    /\ breakdown.igst = Zero

\* C2: taxableValue + totalGst = total = inclusivePrice exactly, and the
\* isSameState field of the breakdown is the argument.
C2_TaxablePlusGstIsTotal ==
    fn = "calculateGstBreakdown" =>
        /\ RAdd(breakdown.taxableValue, breakdown.totalGst) = breakdown.total
        /\ breakdown.total = inclusivePrice
        /\ breakdown.isSameState = isSameState

C2_Witness ==
    /\ fn = "calculateGstBreakdown"
    /\ inclusivePrice = Num(59)
    /\ gstRate = Num(18)
    /\ breakdown.taxableValue = Num(50)
    /\ breakdown.totalGst = Num(9)
    /\ breakdown.total = Num(59)

\* C3: cgst + sgst + igst = totalGst, and the CGST/SGST pair and IGST are
\* never both non-zero in one breakdown.
C3_ComponentsSumToTotalGst ==
    fn = "calculateGstBreakdown" =>
        /\ RAdd(RAdd(breakdown.cgst, breakdown.sgst), breakdown.igst)
              = breakdown.totalGst
        /\ ~(CgstSgstPopulated /\ IgstPopulated)

C3_Witness ==
    /\ fn = "calculateGstBreakdown"
    /\ ~isSameState
    /\ inclusivePrice = Num(118)
    /\ gstRate = Num(18)
    /\ breakdown.igst = Num(18)
    /\ breakdown.cgst = Zero
    /\ breakdown.sgst = Zero

\* C4 as stated: with a non-zero gstRate and any inclusivePrice >= 0,
\* exactly one of the groups {cgst, sgst} and {igst} is non-zero.
C4_ExactlyOneGroupFromZeroPrice ==
    (/\ fn = "calculateGstBreakdown"
     /\ NonZero(gstRate)
     /\ RLeq(Zero, inclusivePrice))
        => (CgstSgstPopulated # IgstPopulated)

\* C4 amended: with a non-zero gstRate and any inclusivePrice > 0, exactly
\* one of the groups {cgst, sgst} and {igst} is non-zero.
C4_ExactlyOneGroupPositivePrice ==
    (/\ fn = "calculateGstBreakdown"
     /\ NonZero(gstRate)
     /\ RLess(Zero, inclusivePrice))
        => (CgstSgstPopulated # IgstPopulated)

C4_Witness ==
    /\ fn = "calculateGstBreakdown"
    /\ NonZero(gstRate)
    /\ RLess(Zero, inclusivePrice)
    /\ ~isSameState
    /\ IgstPopulated
    /\ ~CgstSgstPopulated

\* C5: at rate 0 the breakdown has taxableValue = the price and
\* totalGst = cgst = sgst = igst = 0, whatever isSameState is.
C5_ZeroRate ==
    (fn = "calculateGstBreakdown" /\ gstRate = Zero) =>
        /\ breakdown.taxableValue = inclusivePrice
        /\ breakdown.totalGst = Zero
        /\ breakdown.cgst = Zero
        /\ breakdown.sgst = Zero
        /\ breakdown.igst = Zero

C5_Witness ==
    /\ fn = "calculateGstBreakdown"
    /\ gstRate = Zero
    /\ isSameState
    /\ inclusivePrice = Num(100)
    /\ breakdown.taxableValue = Num(100)
    /\ breakdown.totalGst = Zero

\* C6: for inclusivePrice >= 0 and gstRate >= 0, applying GST to the base
\* price extracted from an inclusive price gives back the inclusive price.
C6_RoundTrip ==
    (/\ fn = "calculatePriceWithGst"
     /\ RLeq(Zero, inclusivePrice)
     /\ RLeq(Zero, gstRate))
        => priceWithGst = inclusivePrice

C6_Witness ==
    /\ fn = "calculatePriceWithGst"
    /\ inclusivePrice = Num(118)
    /\ gstRate = Num(18)
    /\ basePrice = Num(100)
    /\ priceWithGst = Num(118)

---------------------------------------------------------------------------
(* Properties of the amount-to-words converter.                            *)

\* the amount in paise, rounded to the nearest paisa, and its two parts
RoundedPaise == MathRound(RMul(amount, Num(100)))
RupeePart == RoundedPaise \div 100
PaisePart == RoundedPaise % 100

StartsWith(s, prefix) ==
    Len(s) >= Len(prefix) /\ SubSeq(s, 1, Len(prefix)) = prefix

\* the pieces of s between single spaces; a leading, trailing or doubled
\* space shows as an empty piece
RECURSIVE SplitFrom(_, _, _)
SplitFrom(s, i, cur) ==
    IF i > Len(s) THEN <<cur>>
    ELSE IF SubSeq(s, i, i) = " " THEN <<cur>> \o SplitFrom(s, i + 1, "")
    ELSE SplitFrom(s, i + 1, cur \o SubSeq(s, i, i))

Split(s) == SplitFrom(s, 1, "")

Has(toks, w) == \E i \in DOMAIN toks : toks[i] = w

\* "<rupee words> Rupee(s) and <paise words> Paise Only"
HasRupeesAndPaiseForm(s) ==
    LET toks == Split(s)
        n == Len(toks)
    IN  /\ \A i \in 1..n : toks[i] # ""
        /\ n >= 6
        /\ toks[n] = "Only"
        /\ toks[n - 1] = "Paise"
        /\ \E i \in 3..(n - 3) :
              /\ toks[i] = "and"
              /\ toks[i - 1] \in {"Rupee", "Rupees"}
              /\ \A j \in 1..n :
                    j # i => toks[j] # "and"
              /\ \A j \in 1..n :
                    (j # i - 1 /\ j # n - 1 /\ j # n)
                        => toks[j] \notin {"Rupee", "Rupees", "Paise", "Only"}

\* "<paise words> Paise Only"
HasPaiseOnlyForm(s) ==
    LET toks == Split(s)
        n == Len(toks)
    IN  /\ \A i \in 1..n : toks[i] # ""
        /\ n >= 3
        /\ toks[n] = "Only"
        /\ toks[n - 1] = "Paise"
        /\ \A j \in 1..(n - 2) :
              toks[j] \notin {"Rupee", "Rupees", "Paise", "Only", "and"}

EndsWithOnly(s) ==
    Len(s) >= 5 /\ SubSeq(s, Len(s) - 4, Len(s)) = " Only"

\* C7: the literal boundary strings: 0 -> "Zero Only", 1 -> "One Rupee
\* Only", 100 -> "One Hundred Rupees Only", 1000 -> "One Thousand Rupees
\* Only", 100000 starts with "One Lakh", 10000000 starts with "One Crore",
\* 100.50 -> "One Hundred Rupees and Fifty Paise Only".
C7_BoundaryStrings ==
    fn = "convertAmountToWords" =>
        /\ amount = Num(0) => words = "Zero Only"
        /\ amount = Num(1) => words = "One Rupee Only"
        /\ amount = Num(100) => words = "One Hundred Rupees Only"
        /\ amount = Num(1000) => words = "One Thousand Rupees Only"
        /\ amount = Num(100000) => StartsWith(words, "One Lakh")
        /\ amount = Num(10000000) => StartsWith(words, "One Crore")
        /\ amount = Rat(10050, 100)
              => words = "One Hundred Rupees and Fifty Paise Only"

C7_Witness ==
    /\ fn = "convertAmountToWords"
    /\ amount = Num(100000)
    /\ words = "One Lakh Rupees Only"

\* C8: an amount that rounds to 0.00 (0 itself or a non-zero amount below
\* half a paisa) is put into words as exactly "Zero Only".
C8_RoundsToZeroIsZeroOnly ==
    (fn = "convertAmountToWords" /\ RoundedPaise = 0) => words = "Zero Only"

\* C9: with a rupee part >= 1 the unit word is the singular "Rupee" if and
\* only if the rupee part (after rounding to 2 decimals) is exactly 1, and
\* "Rupees" otherwise.
C9_SingularIffOneRupee ==
    (fn = "convertAmountToWords" /\ RupeePart >= 1) =>
        /\ Has(Split(words), "Rupee") <=> RupeePart = 1
        /\ Has(Split(words), "Rupees") <=> RupeePart # 1

C9_Witness ==
    /\ fn = "convertAmountToWords"
    /\ amount = Rat(1995, 1000)
    /\ RupeePart = 2
    /\ words = "Two Rupees Only"

\* C10 as stated: every amount with a paise part > 0, amounts below one
\* rupee included, reads "<rupee words> Rupee(s) and <paise words> Paise
\* Only"; " Only" is the final suffix; with a paise part of 0 there is no
\* "Paise".
C10_PaiseFormAnyRupees ==
    fn = "convertAmountToWords" =>
        /\ EndsWithOnly(words)
        /\ PaisePart > 0 => HasRupeesAndPaiseForm(words)
        /\ PaisePart = 0 => ~Has(Split(words), "Paise")

\* C10 amended: an amount with a paise part > 0 and a rupee part >= 1 reads
\* "<rupee words> Rupee(s) and <paise words> Paise Only"; one with a paise
\* part > 0 below one rupee reads "<paise words> Paise Only", with no rupee
\* phrase and no "and"; " Only" is the final suffix; with a paise part of 0
\* there is no "Paise".
C10_PaiseFormFromOneRupee ==
    fn = "convertAmountToWords" =>
        /\ EndsWithOnly(words)
        /\ (PaisePart > 0 /\ RupeePart >= 1) => HasRupeesAndPaiseForm(words)
        /\ (PaisePart > 0 /\ RupeePart = 0) => HasPaiseOnlyForm(words)
        /\ PaisePart = 0 => ~Has(Split(words), "Paise")

C10_Witness ==
    /\ fn = "convertAmountToWords"
    /\ RupeePart = 1
    /\ PaisePart = 50
    /\ words = "One Rupee and Fifty Paise Only"

\* the rupee and paise parts the code derives, as the call computed them
CodeRupees == rupeesOf(amount)
CodePaise == paiseOf(amount)

\* C11: with c = amount*100 rounded to the nearest integer, the rupees and
\* paise the converter derives satisfy rupees*100 + paise = c and
\* 0 <= paise <= 99.
C11_RupeesAndPaiseMakeTheRoundedAmount ==
    fn = "convertAmountToWords" =>
        /\ CodeRupees * 100 + CodePaise = RoundedPaise
        /\ CodePaise >= 0
        /\ CodePaise <= 99

C11_Witness ==
    /\ fn = "convertAmountToWords"
    /\ amount = Rat(995, 1000)
    /\ CodeRupees = 1
    /\ CodePaise = 0
    /\ words = "One Rupee Only"

---------------------------------------------------------------------------
(* A reference converter for Indian-English rupee words.                   *)

RefBelowTwenty == <<"One", "Two", "Three", "Four", "Five", "Six", "Seven", "Eight", "Nine", "Ten", "Eleven", "Twelve", "Thirteen", "Fourteen", "Fifteen", "Sixteen", "Seventeen", "Eighteen", "Nineteen">>
RefTens == <<"Twenty", "Thirty", "Forty", "Fifty", "Sixty", "Seventy", "Eighty", "Ninety">>

\* the words of k in 0..99
RefBelowHundred(k) ==
    IF k = 0 THEN <<>>
    ELSE IF k < 20 THEN <<RefBelowTwenty[k]>>
    ELSE <<RefTens[(k \div 10) - 1]>>
           \o (IF k % 10 > 0 THEN <<RefBelowTwenty[k % 10]>> ELSE <<>>)

\* a group of k in 0..99 followed by its unit word, nothing when k = 0
RefGroup(k, unit) == IF k = 0 THEN <<>> ELSE RefBelowHundred(k) \o <<unit>>

\* the words of n in 1 .. 99,99,99,999
RefRupeeWords(n) ==
    RefGroup(n \div 10000000, "Crore")
      \o RefGroup((n \div 100000) % 100, "Lakh")
      \o RefGroup((n \div 1000) % 100, "Thousand")
      \o RefGroup((n \div 100) % 10, "Hundred")
      \o RefBelowHundred(n % 100)

\* the pieces of the result in front of the unit word "Rupee" / "Rupees"
RECURSIVE UpToUnit(_)
UpToUnit(toks) ==
    IF toks = <<>> \/ Head(toks) \in {"Rupee", "Rupees"} THEN <<>>
    ELSE <<Head(toks)>> \o UpToUnit(Tail(toks))

\* C12: the rupee words are those of the reference converter (groups in
\* descending order with "Crore", "Lakh", "Thousand", "Hundred", single
\* spaces, no leading, trailing or doubled space), for 1..9999 rupees with
\* paise, and for values with lakh and crore groups up to 99,99,99,999.
C12_RupeeWordsMatchReference ==
    /\ (fn = "convertAmountToWords" /\ RupeePart >= 1)
          => UpToUnit(Split(words)) = RefRupeeWords(RupeePart)
    /\ (fn = "convertToWords" /\ wholeRupees >= 1)
          => Split(words) = RefRupeeWords(wholeRupees)

C12_Witness ==
    /\ fn = "convertToWords"
    /\ wholeRupees = 999999999
    /\ words = "Ninety Nine Crore Ninety Nine Lakh Ninety Nine Thousand Nine Hundred Ninety Nine"

---------------------------------------------------------------------------
(* Properties of the order and invoice aggregators.                        *)

\* C13: the aggregate totals are the sums of the reported per-line and
\* delivery components: in calculateInvoiceData totals.taxableValue is the
\* sum of lineTaxableValue plus delivery.taxableValue, and totals.cgst,
\* sgst, igst are the sums of the lines' components (unit value times
\* quantity) plus the delivery's; in calculateOrder totalTaxableValue,
\* totalCgst, totalSgst, totalIgst are the sums of lineTaxableValue,
\* lineCgst, lineSgst, lineIgst plus the delivery's taxableValue,
\* cgstAmount, sgstAmount, igstAmount.
C13_TotalsAreSumsOfComponents ==
    /\ fn = "calculateInvoiceData" =>
          /\ invoice.totals.taxableValue
                = RAdd(SumField(invoice.items, "lineTaxableValue"),
                       invoice.delivery.taxableValue)
          /\ invoice.totals.cgst
                = RAdd(SumFieldByQuantity(invoice.items, "cgst"),
                       invoice.delivery.cgst)
          /\ invoice.totals.sgst
                = RAdd(SumFieldByQuantity(invoice.items, "sgst"),
                       invoice.delivery.sgst)
          /\ invoice.totals.igst
                = RAdd(SumFieldByQuantity(invoice.items, "igst"),
                       invoice.delivery.igst)
    /\ fn = "calculateOrder" =>
          /\ order.totals.totalTaxableValue
                = RAdd(SumField(order.items, "lineTaxableValue"),
                       order.delivery.taxableValue)
          /\ order.totals.totalCgst
                = RAdd(SumField(order.items, "lineCgst"),
                       order.delivery.cgstAmount)
          /\ order.totals.totalSgst
                = RAdd(SumField(order.items, "lineSgst"),
                       order.delivery.sgstAmount)
          /\ order.totals.totalIgst
                = RAdd(SumField(order.items, "lineIgst"),
                       order.delivery.igstAmount)

\* two lines, one of quantity 2 and a price whose taxable value is not whole,
\* a fractional delivery charge, same state
C13_Witness ==
    /\ fn = "calculateOrder"
    /\ Len(order.items) = 2
    /\ items[1] = [inclusivePrice |-> Num(10), gstRate |-> Num(18), quantity |-> 2]
    /\ delivery.inclusiveCharges = Rat(81, 2)
    /\ isSameState
    /\ RLess(Zero, order.totals.totalCgst)
    /\ order.totals.totalCgst = order.totals.totalSgst

\* totalGst is the sum of the three reported component totals, in both results
TotalGstIsSumOfComponents ==
    /\ fn = "calculateOrder" =>
          order.totals.totalGst
            = RAdd(RAdd(order.totals.totalCgst, order.totals.totalSgst),
                   order.totals.totalIgst)
    /\ fn = "calculateInvoiceData" =>
          invoice.totals.totalGst
            = RAdd(RAdd(invoice.totals.cgst, invoice.totals.sgst),
                   invoice.totals.igst)

\* in calculateInvoiceData the grand total is the sum of the reported line
\* totals plus the delivery charges (the delivery breakdown's total)
InvoiceGrandTotalIsSum ==
    fn = "calculateInvoiceData" =>
        invoice.totals.grandTotal
          = RAdd(SumField(invoice.items, "lineTotal"), invoice.delivery.total)

\* C14: for every item list and every delivery charge (a
\* fractional one included) the reported grandTotal is the sum of the
\* reported line totals plus the reported delivery charges, and totalGst
\* is totalCgst + totalSgst + totalIgst.
C14_GrandTotalIsSumWithReportedDelivery ==
    /\ TotalGstIsSumOfComponents
    /\ InvoiceGrandTotalIsSum
    /\ fn = "calculateOrder" =>
          order.totals.grandTotal
            = RAdd(SumField(order.items, "lineTotal"),
                   order.totals.deliveryCharges)

\* C15: for the order with the lines {118, 18 %, quantity 2} and
\* {236, 18 %, quantity 1}, delivery {59, 18 %} and a same-state address,
\* calculateOrder reports grandTotal 531, totalGst round(531 - 531/1.18),
\* which is 81, and totalCgst = totalSgst = totalGst / 2.
C15_WorkedOrder ==
    (/\ fn = "calculateOrder"
     /\ items = <<[inclusivePrice |-> Num(118), gstRate |-> Num(18), quantity |-> 2],
                  [inclusivePrice |-> Num(236), gstRate |-> Num(18), quantity |-> 1]>>
     /\ delivery = [inclusiveCharges |-> Num(59), gstRate |-> Num(18)]
     /\ isSameState)
    => /\ order.totals.grandTotal = Num(531)
       /\ order.totals.totalGst
             = Round(RSub(Num(531), RDiv(Num(531), Rat(118, 100))))
       /\ order.totals.totalGst = Num(81)
       /\ order.totals.totalCgst = RDiv(order.totals.totalGst, Num(2))
       /\ order.totals.totalSgst = RDiv(order.totals.totalGst, Num(2))

\* the unrounded sum over the order's items of (unit value f * quantity) plus
\* the delivery's value f
ExactTotal(f) ==
    RAdd(SumOf([i \in DOMAIN items |->
                  RMul(calculateGstBreakdown(items[i].inclusivePrice,
                                             items[i].gstRate, isSameState)[f],
                       Num(items[i].quantity))]),
         calculateGstBreakdown(delivery.inclusiveCharges, delivery.gstRate,
                               isSameState)[f])

\* |a - b| <= tolerance
Within(a, b, tolerance) ==
    RLeq(RSub(a, b), tolerance) /\ RLeq(RSub(b, a), tolerance)

RoundedOnce(reported, f) ==
    /\ reported = Round(ExactTotal(f))
    /\ Within(reported, ExactTotal(f), Rat(1, 2))

\* C16: each total reported by calculateOrder (totalTaxableValue, totalCgst,
\* totalSgst, totalIgst) is the exact unrounded sum of unit value * quantity
\* over the items plus the delivery value, rounded once, and so lies within
\* half a rupee of the exact sum.
C16_TotalsRoundedOnce ==
    fn = "calculateOrder" =>
        /\ RoundedOnce(order.totals.totalTaxableValue, "taxableValue")
        /\ RoundedOnce(order.totals.totalCgst, "cgst")
        /\ RoundedOnce(order.totals.totalSgst, "sgst")
        /\ RoundedOnce(order.totals.totalIgst, "igst")

\* rounding to the nearest integer, a tie going away from zero
RoundHalfAwayFromZero(x) ==
    IF RLess(x, Zero)
    THEN Num(0 - MathFloor(RAdd(RNeg(x), Rat(1, 2))))
    ELSE Num(MathFloor(RAdd(x, Rat(1, 2))))

\* C17: every field that calculateOrder and generateInvoiceData round to
\* whole rupees is the unrounded value rounded to the nearest integer, ties
\* away from zero, negative values included.
C17_RoundsHalfAwayFromZero ==
    /\ fn = "calculateOrder" =>
          LET d == calculateGstBreakdown(delivery.inclusiveCharges,
                                         delivery.gstRate, isSameState)
              Unit(i) == calculateGstBreakdown(items[i].inclusivePrice,
                                               items[i].gstRate, isSameState)
              Line(i, f) == RMul(Unit(i)[f], Num(items[i].quantity))
          IN  /\ order.delivery.taxableValue = RoundHalfAwayFromZero(d.taxableValue)
              /\ order.delivery.gstAmount = RoundHalfAwayFromZero(d.totalGst)
              /\ order.delivery.cgstAmount = RoundHalfAwayFromZero(d.cgst)
              /\ order.delivery.sgstAmount = RoundHalfAwayFromZero(d.sgst)
              /\ order.delivery.igstAmount = RoundHalfAwayFromZero(d.igst)
              /\ \A i \in DOMAIN items :
                    /\ order.items[i].taxableValue
                          = RoundHalfAwayFromZero(Unit(i).taxableValue)
                    /\ order.items[i].lineTaxableValue
                          = RoundHalfAwayFromZero(Line(i, "taxableValue"))
                    /\ order.items[i].lineCgst
                          = RoundHalfAwayFromZero(Line(i, "cgst"))
                    /\ order.items[i].lineSgst
                          = RoundHalfAwayFromZero(Line(i, "sgst"))
                    /\ order.items[i].lineIgst
                          = RoundHalfAwayFromZero(Line(i, "igst"))
                    /\ order.items[i].lineTotal
                          = RoundHalfAwayFromZero(RMul(items[i].inclusivePrice,
                                                       Num(items[i].quantity)))
              /\ order.totals.totalCgst
                    = RoundHalfAwayFromZero(RAdd(SumField(order.items, "lineCgst"), d.cgst))
              /\ order.totals.totalSgst
                    = RoundHalfAwayFromZero(RAdd(SumField(order.items, "lineSgst"), d.sgst))
              /\ order.totals.grandTotal
                    = RoundHalfAwayFromZero(RAdd(SumField(order.items, "lineTotal"),
                                                 delivery.inclusiveCharges))
    /\ fn = "generateInvoiceData" =>
          LET d == calculateGstBreakdown(invoiceData.delivery.charges,
                                         Num(DEFAULT_DELIVERY_GST_RATE),
                                         invoiceData.gstInfo.isSameState)
          IN  /\ invoiceData.delivery.taxableValue
                    = RoundHalfAwayFromZero(d.taxableValue)
              /\ invoiceData.delivery.gstAmount
                    = RoundHalfAwayFromZero(d.totalGst)

\* the unit breakdown generateInvoiceData computes for item i of the order
InvoiceUnitBreakdown(i) ==
    calculateGstBreakdown(items[i].inclusivePrice,
                          IF items[i].gstRate = Zero
                          THEN Num(DEFAULT_ITEM_GST_RATE) ELSE items[i].gstRate,
                          invoiceData.gstInfo.isSameState)

\* C20: for every order item generateInvoiceData reports line figures scaled
\* by the quantity: taxableValue is the unit taxable value * quantity (in
\* whole rupees), the taxComponents amounts add up to the unit GST * quantity
\* (to the paisa of each component), and so taxableValue plus the
\* taxComponents amounts is the item's total up to rounding.
C20_LineFiguresScaledByQuantity ==
    fn = "generateInvoiceData" =>
        \A i \in DOMAIN invoiceData.items :
            LET line == invoiceData.items[i]
                qty == Num(line.quantity)
            IN  /\ line.taxableValue
                      = Round(RMul(InvoiceUnitBreakdown(i).taxableValue, qty))
                /\ Within(TaxAmountSum(line.taxComponents),
                          RMul(InvoiceUnitBreakdown(i).totalGst, qty),
                          Rat(1, 100))
                /\ Within(RAdd(line.taxableValue,
                               TaxAmountSum(line.taxComponents)),
                          line.total, Rat(101, 100))

---------------------------------------------------------------------------
(* Properties of the fallback to inter-state supply.                       *)

\* sub occurs in s
Contains(s, sub) ==
    \E i \in 1..(Len(s) - Len(sub) + 1) : SubSeq(s, i, i + Len(sub) - 1) = sub

\* a state argument that is missing or empty
MissingOrEmpty(state) == state.k # "string" \/ state.v = ""

\* C18: when the same-state status is not determined the supply is taxed as
\* inter-state: calculateGstBreakdown called without isSameState returns
\* igst = totalGst and cgst = sgst = 0, and calculateTaxes reports IGST only
\* (at the full rate, on the whole tax amount) whenever the buyer state or
\* the seller state is missing or empty.
C18_UndeterminedStateIsInterState ==
    /\ fn = "calculateGstBreakdownDefault" =>
          /\ breakdown.igst = breakdown.totalGst
          /\ breakdown.cgst = Zero
          /\ breakdown.sgst = Zero
          /\ breakdown.igstRate = gstRate
          /\ ~breakdown.isSameState
    /\ (fn = "calculateTaxes"
          /\ (MissingOrEmpty(buyerState) \/ MissingOrEmpty(sellerState))) =>
          /\ StartsWith(taxes, "IGST @ " \o NumberToString(gstRate) \o "% i.e. ")
          /\ ~Contains(taxes, "CGST")
          /\ ~Contains(taxes, "SGST")

\* both states missing or empty, a taxed line: IGST 18 % on 236 is 36.00
C18_Witness ==
    /\ fn = "calculateTaxes"
    /\ buyerState = [k |-> "string", v |-> ""]
    /\ sellerState = [k |-> "undefined", v |-> ""]
    /\ inclusivePrice = Num(118)
    /\ taxQuantity = 2
    /\ gstRate = Num(18)
    /\ taxes = "IGST @ 18% i.e. 36.00"

---------------------------------------------------------------------------
(* Properties of the display formatters.                                   *)

EndsWith(s, suffix) ==
    Len(s) >= Len(suffix) /\ SubSeq(s, Len(s) - Len(suffix) + 1, Len(s)) = suffix

\* C19: for every price that is not a finite number (NaN, undefined, null,
\* +Infinity, -Infinity) and for every non-finite gstRate, both formatters
\* return the zero display string "₹0.00 (₹0.00 + ₹0.00 GST @ ...%)" and
\* never a string that contains NaN or Infinity.
C19_NonFiniteGivesZeroDisplay ==
    (/\ fn \in {"formatPriceWithGstBreakdown", "formatGstInclusivePriceBreakdown"}
     /\ (fmtPrice.k # "num" \/ fmtRate.k # "num"))
    => /\ StartsWith(formatted, "₹0.00 (₹0.00 + ₹0.00 GST @ ")
       /\ EndsWith(formatted, "%)")
       /\ ~Contains(formatted, "NaN")
       /\ ~Contains(formatted, "Infinity")

---------------------------------------------------------------------------
(* Properties of the invoice generated for a stored order.                  *)

\* C21: an order item whose product GST rate is 0 appears in the invoice of
\* generateInvoiceData with taxable value equal to its inclusive price
\* times quantity (in whole rupees, as the field is reported) and with
\* every tax component amount 0: the zero rate is not replaced.
C21_ZeroRateItemIsUntaxed ==
    fn = "generateInvoiceData" =>
        \A i \in DOMAIN invoiceData.items :
            items[i].gstRate = Zero =>
                /\ invoiceData.items[i].taxableValue
                      = Round(RMul(items[i].inclusivePrice, Num(items[i].quantity)))
                /\ \A k \in DOMAIN invoiceData.items[i].taxComponents :
                      /\ invoiceData.items[i].taxComponents[k].taxAmount = Zero
                      /\ invoiceData.items[i].taxComponents[k].taxRate = Zero

\* the order row generateInvoiceData fetched
StoredOrderData == orderDataOf(formatForDatabase(order), items)

\* the sum of price * quantity over the stored items
StoredItemsTotal ==
    SumOf([i \in DOMAIN StoredOrderData.items |->
             RMul(StoredOrderData.items[i].price,
                  Num(StoredOrderData.items[i].quantity))])

\* C22: when the stored order total is smaller than the sum of item price *
\* quantity, generateInvoiceData returns an invoice whose delivery.charges
\* is the negative difference, whose delivery taxableValue and gstAmount are
\* the (rounded) breakdown of that negative amount at the default delivery
\* rate, and whose grandTotal is the stored order total.
C22_NegativeDeliveryIsBrokenDown ==
    (fn = "generateInvoiceData" /\ RLess(StoredOrderData.total, StoredItemsTotal)) =>
        /\ invoiceData.delivery.charges
              = RSub(StoredOrderData.total, StoredItemsTotal)
        /\ RLess(invoiceData.delivery.charges, Zero)
        /\ invoiceData.delivery.taxableValue
              = Round(RDiv(invoiceData.delivery.charges,
                           RAdd(Num(1), Rat(DEFAULT_DELIVERY_GST_RATE, 100))))
        /\ invoiceData.delivery.gstAmount
              = Round(RSub(invoiceData.delivery.charges,
                           RDiv(invoiceData.delivery.charges,
                                RAdd(Num(1), Rat(DEFAULT_DELIVERY_GST_RATE, 100)))))
        /\ invoiceData.totals.grandTotal = StoredOrderData.total

\* a stored total of 177 for items worth 236: charges -59, taxable -56, GST -3
C22_Witness ==
    /\ fn = "generateInvoiceData"
    /\ StoredOrderData.total = Num(177)
    /\ StoredItemsTotal = Num(236)
    /\ invoiceData.delivery.charges = Num(0 - 59)
    /\ invoiceData.delivery.taxableValue = Num(0 - 56)
    /\ invoiceData.delivery.gstAmount = Num(0 - 3)
    /\ invoiceData.totals.grandTotal = Num(177)

---------------------------------------------------------------------------
(* Properties of the digit groups of the converter.                        *)

\* C23: for every non-negative integer rupee value, values of 1000 crore
\* and above included, each group convertToWords hands to
\* convertLessThanThousand is in 0..999, so every word emitted comes from
\* the ones/teens/tens tables.
C23_GroupsAreBelowThousand ==
    fn = "convertToWordsWide" =>
        /\ wideRupees.crores \in 0..999
        /\ wideRupees.below \div 100000 \in 0..999
        /\ JsRem(wideRupees.below, 100000) \div 1000 \in 0..999
        /\ JsRem(wideRupees.below, 1000) \in 0..999
        /\ ~Contains(words, "undefined")

---------------------------------------------------------------------------
(* Properties of the rounded figures reported by calculateOrder.           *)

\* the rounded CGST, SGST and IGST of a record add up to its rounded GST
ComponentsAddUp(r) ==
    RAdd(RAdd(r.cgstAmount, r.sgstAmount), r.igstAmount) = r.gstAmount

\* C25: in the result of calculateOrder, for the delivery record and for
\* every item record, cgstAmount + sgstAmount + igstAmount = gstAmount,
\* for every price, rate and same-state flag.
C25_RoundedComponentsAddUp ==
    fn = "calculateOrder" =>
        /\ ComponentsAddUp(order.delivery)
        /\ \A i \in DOMAIN order.items : ComponentsAddUp(order.items[i])

\* a number of whole rupees
IsWhole(x) == RSub(x, Num(MathFloor(x))) = Zero

\* C26: in the result of calculateOrder, for every order whose item prices
\* and delivery charge are whole rupees, totalTaxableValue + totalGst =
\* grandTotal.
C26_TaxableValuePlusGstIsGrandTotal ==
    ( /\ fn = "calculateOrder"
      /\ IsWhole(delivery.inclusiveCharges)
      /\ \A i \in DOMAIN items : IsWhole(items[i].inclusivePrice) ) =>
        RAdd(order.totals.totalTaxableValue, order.totals.totalGst)
            = order.totals.grandTotal

---------------------------------------------------------------------------
(* Properties of the state normalization of the calculateTaxes helper.     *)

\* C24: normalizeState maps two texts that differ only in letter case,
\* whitespace or punctuation to the same value, and the abbreviation of
\* every state and union territory to the same value as its name, so that
\* a buyer given by abbreviation and a seller given by name of the same
\* state are taxed as CGST+SGST.
C24_SameStateInTwoSpellings ==
    ( /\ fn = "calculateTaxes"
      /\ <<StateText(buyerState), StateText(sellerState)>> \in SameStatePairs ) =>
        /\ normalizeState(StateText(buyerState))
              = normalizeState(StateText(sellerState))
        /\ StartsWith(taxes, "SGST @ ")

---------------------------------------------------------------------------
(* Properties of the two amount-to-words implementations.                  *)

\* C28: for every non-negative amount, the text of the amountInWords helper
\* followed by the template's " Only" equals convertAmountToWords(amount),
\* including for 0, for exactly 1 rupee and for amounts whose fraction
\* rounds up to a whole rupee.
C28_HelperAgreesWithConverter ==
    fn = "amountInWords" => helperWords = words

---------------------------------------------------------------------------
(* Properties relating the GST math primitives.                            *)

\* C27: for every inclusivePrice and every gstRate other than -100, the GST
\* extracted from an inclusive price equals the GST computed on its base
\* price: extractGstAmount(p, r) = calculateGstAmount(calculateBasePrice(p, r), r).
C27_ExtractedGstIsGstOnBase ==
    (fn = "extractGstAmount" /\ gstRate # Num(0 - 100)) =>
        /\ basePrice = calculateBasePrice(inclusivePrice, gstRate)
        /\ extractedGst = gstOnBase

\* both computed for 100 at the rate -50: the base price is 200
C27_Witness ==
    /\ fn = "extractGstAmount"
    /\ inclusivePrice = Num(100)
    /\ gstRate = Num(0 - 50)
    /\ basePrice = Num(200)
    /\ extractedGst = Num(0 - 100)
    /\ gstOnBase = Num(0 - 100)

---------------------------------------------------------------------------
(* Properties of the invoice routes.                                       *)

\* the requester is an admin, the order's buyer, or a seller with products
\* in the order
Authorized ==
    \/ req.role = "admin"
    \/ req.isOrderBuyer
    \/ req.role = "seller" /\ storage.orderHasSellerProducts

Invoked(f) == \E i \in DOMAIN calls : calls[i] = f

InvoiceSent == res.body \in {"pdf", "json"}

\* C29: on both invoice routes, generateInvoiceData is invoked and invoice
\* content is sent only after, in this order, the request is authenticated
\* (else 401 with no storage access), the order exists (else 404) and the
\* requester is an admin, the order's buyer or a seller with products in
\* the order (else 403); an error thrown afterwards yields 500 and no
\* invoice content.
C29_InvoiceOnlyAfterChecks ==
    /\ (Invoked("generateInvoiceData") \/ InvoiceSent) =>
          /\ req.isAuthenticated
          /\ storage.orderExists
          /\ Authorized
          /\ Head(calls) = "getOrder"
          /\ \A i \in DOMAIN calls :
                calls[i] = "orderHasSellerProducts" => i = 2
    /\ InvoiceSent =>
          /\ Invoked("generateInvoiceData")
          /\ ~threw
          /\ res.status = 200
    /\ Invoked("orderHasSellerProducts") =>
          req.isAuthenticated /\ storage.orderExists
    /\ (routePc = "done" /\ ~req.isAuthenticated) =>
          res = sendStatus(401) /\ calls = << >>
    /\ (routePc = "done" /\ req.isAuthenticated /\ ~threw) =>
          /\ ~storage.orderExists => res = jsonError(404)
          /\ (storage.orderExists /\ ~Authorized) => res = jsonError(403)
    /\ threw => res = jsonError(500) /\ routePc = "done"

\* a seller who is not the buyer receives the PDF of an order with their
\* products
C29_Witness ==
    /\ routePc = "done"
    /\ req.route = "tax-invoice"
    /\ req.role = "seller"
    /\ ~req.isOrderBuyer
    /\ res = [status |-> 200, body |-> "pdf"]
    /\ calls = <<"getOrder", "orderHasSellerProducts", "generateInvoiceData",
                 "generatePdfBuffer">>

---------------------------------------------------------------------------
(* Properties of interleaved generateInvoiceHtml calls.                    *)

\* C30: when two generateInvoiceHtml calls for different orders interleave
\* at their await points, each call's rendered HTML contains the QR code
\* generated for its own order, although the qrCode helper is registered
\* on the shared global Handlebars instance.
C30_EachCallRendersItsOwnQrCode ==
    \A p \in HtmlCalls :
        htmlPc[p] = "done" =>
            /\ Contains(html[p], toDataURL(qrDataOf(htmlOrder[p])))
            /\ \A id \in OrderIds \ {htmlOrder[p]} :
                  ~Contains(html[p], toDataURL(qrDataOf(id)))

\* both calls have rendered, for different orders, the second after the
\* first had registered its helper
C30_Witness ==
    /\ htmlPc = [p \in HtmlCalls |-> "done"]
    /\ htmlOrder[1] = 1
    /\ htmlOrder[2] = 2
    /\ helpers.qrCode = toDataURL(qrDataOf(1))
    /\ html[1] = renderQrSection([qrCode |-> toDataURL(qrDataOf(1))])
    /\ html[2] = renderQrSection([qrCode |-> toDataURL(qrDataOf(2))])

====
